---- MODULE Spec2Model ----
(***************************************************************************)
(* Juggler: one gateway connection (juggler/conn.go, juggler/handler.go)   *)
(* with its three goroutines and the exclusive writer, and the redis       *)
(* broker's enqueue script (broker/redisbroker).                           *)
(*                                                                         *)
(* handler.go names the lock-timeout sentinel ErrLockWriterTimeout and     *)
(* conn.go names it ErrWriteLockTimeout; they are the one value the        *)
(* exclusive writer returns, "LockTimeout" below.                          *)
(***************************************************************************)
EXTENDS Integers, Sequences, FiniteSets, TLC

\* ---------------------------------------------------------------- bounds
\* Inputs the connection is given: text frames that decode to a request and
\* events offered by the pub/sub stream, counted together.
MaxInputs == 1
\* Broker.Call invocations explored against one URI.
MaxCalls == 3
MaxPanics == 2
MaxRequests == 3
MaxWriters == 2
MaxClientCalls == 2
MaxTimedCalls == 2
MaxCloses == 2
MaxData == 3
MaxReads == 5
MaxStack == 6

\* ------------------------------------------------------ program constants
\* handler.go: const minLimit = 4096 in limitWriter.
minLimit == 4096

\* The three goroutines of a connection (conn.go: receive, results, pubSub).
Procs == {"receive", "results", "pubSub"}

\* Call message UUIDs: the k-th frame read carries UUID k.
CallIds == 1..MaxInputs

None == "none"

\* Server configuration explored: AcquireWriteLockTimeout (0 = wait forever)
\* and WriteLimit (0 = unlimited).
LockTimeouts == {0, 10}
WriteLimits == {0, 1}
\* Encoded lengths of outgoing messages.
MsgLens == {4096, 4097}

\* Message kinds a client sends (msg package: IsRead).
ReadKinds == {"CALL", "PUB", "SUB", "UNSB", "AUTH"}

VARIABLES
    cfg,            \* [lockTimeout, writeLimit]: Server fields, fixed per run
    pc,             \* position of each goroutine
    cur,            \* the message a goroutine is sending through writeMsg
    attempt,        \* 1: the message itself, 2: the ERR 550 about it
    err,            \* the error writeMsg returns to ProcessMsg
    w,              \* each goroutine's exclusiveWriter
    wmu,            \* tokens in Conn.wmu (buffered channel of capacity 1)
    frame,          \* goroutine whose websocket frame is open, or None
    interleaved,    \* history: a frame operation hit another writer's frame
    closeArg,       \* the argument of a goroutine's pending Conn.Close call
    ret,            \* where a goroutine continues after Conn.Close returns
    once,           \* Conn.closeOnce: "idle", "running" or "done"
    CloseErr,       \* Conn.CloseErr
    closeErrWrites, \* history: assignments made to CloseErr
    firstCause,     \* history: argument of the Close call that ran the Once
    pscCloses,      \* history: calls made to psc.Close
    rescCloses,     \* history: calls made to resc.Close
    killCloses,     \* history: close(c.kill) executions
    wsClosed,       \* the websocket connection was closed by the upgrader
    nRead,          \* valid frames read so far
    enq,            \* per call: result of the caller broker's enqueue
    replies,        \* per call: replies handed to Conn.Send by ProcessMsg
    resList,        \* redis list juggler:results:{cUUID}, head first
    resKeys,        \* call UUIDs whose result-timeout key exists
    stored,         \* calls whose result a callee has stored
    resCh,          \* call whose result is offered on the results channel, or 0
    resChClosed,    \* the results channel is closed
    resErr,         \* ResultsConn.ResultsErr()
    resSent,        \* per call: RES messages handed to Conn.Send
    nEvents,        \* events delivered by the pub/sub stream so far
    evCh,           \* value offered on the events channel, or None
    evChClosed,     \* the events channel is closed
    evErr,          \* PubSubConn.EventsErr()
    callCap,        \* Broker.CallCap
    callList,       \* redis list juggler:calls:{URI}, head first
    callKeys,       \* call UUIDs whose call-timeout key exists
    callReply,      \* per Broker.Call invocation: what Call returned
    pushOrder,      \* history: payloads the script left on the list, in push order
    deq,            \* history: payloads the callees took, in the order taken
    resultReply,    \* per call: what Broker.Result returned
    resultCap,      \* Broker.ResultCap
    callKeyVal,     \* per call: value and PX (ms) its timeout key was SET with
    callTimeout,    \* per call: the timeout Broker.Call was given (microseconds)
    lwLen,          \* encoded length of the message given to a lone writeMsg
    lwOut,          \* what became of it
    prCfg,          \* PanicRecover's arguments, once a handler is wrapped
    prPc,           \* per connection: where the wrapped handler's caller is
    prPanic,        \* per connection: the value the handler panicked with
    prClosed,       \* per connection: the cause it was closed with
    prHandled,      \* per connection: messages given to the wrapped handler
    prLogged,       \* recovered panics logged
    prStacks,       \* stack samples logged
    prEscaped,      \* a panic reached the caller of Handle
    dsLog,          \* requests ProcessMsg was given, in order
    dsPublish,      \* history: Publish invocations on the pub/sub broker
    dsSubscribe,    \* history: Subscribe invocations on c.psc
    dsUnsubscribe,  \* history: Unsubscribe invocations on c.psc
    uw,             \* per task and rank: the exclusiveWriter Conn.Writer returned
    uwPc,           \* per task: idle, or in the select of exclusiveWriter.Write
    uwSel,          \* per task: the rank of the writer whose Write it is in
    uwMu,           \* permits in c.wmu on the connection the tasks write to
    ldPc,           \* where runClient is: loop, wait or closed
    ldStats,        \* runStats counters Calls, OK, Res, Exp, Err
    wgResults,      \* counter of runClient's wgResults
    clIssued,       \* calls the client has sent
    clPending,      \* the client's pending calls
    clRes,          \* per call: the gateway's RES is not sent, flying or arrived
    clOK,           \* calls whose OK has arrived
    clGot,          \* per call: RES, EXP and ERR messages given to the handler
    clErr,          \* per call: the gateway's ERR is not sent, flying or arrived
    pData,          \* parser.data, the bytes of the input
    pSt,            \* the parser's i, rn, w, the length of errs, and whether it panicked
    pReads,         \* calls of parser.read made directly so far
    pGrammar,       \* the grammar given to parse, once it ran
    pRet,           \* what parse returned, once it ran
    bPc,            \* where BuildParser is: idle, rules, done or overflow
    bGrammar,       \* the grammar BuildParser was given
    bRule,          \* index of the next rule of buildParser's loop
    bStack,         \* the writeExpr calls in progress, innermost last
    bExprIndex,     \* builder.exprIndex
    bErr,           \* builder.err
    bOut            \* writes that reached the io.Writer

procVars == <<pc, cur, attempt, err, closeArg, ret>>
writerVars == <<w, wmu, frame, interleaved>>
closeVars == <<once, CloseErr, closeErrWrites, firstCause, pscCloses, rescCloses, killCloses>>
rcvVars == <<wsClosed, nRead, enq, replies>>
resVars == <<resList, resKeys, stored, resCh, resChClosed, resErr, resSent>>
evVars == <<nEvents, evCh, evChClosed, evErr>>
brokerVars == <<callCap, callList, callKeys, callReply, pushOrder, deq, resultReply,
               resultCap, callKeyVal, callTimeout>>
limVars == <<lwLen, lwOut>>
panicVars == <<prCfg, prPc, prPanic, prClosed, prHandled, prLogged, prStacks, prEscaped>>
dispVars == <<dsLog, dsPublish, dsSubscribe, dsUnsubscribe>>
apiVars == <<uw, uwPc, uwSel, uwMu>>
loadVars == <<ldPc, ldStats, wgResults, clIssued, clPending, clRes, clOK, clGot, clErr>>
pegVars == <<pData, pSt, pReads, pGrammar, pRet>>
buildVars == <<bPc, bGrammar, bRule, bStack, bExprIndex, bErr, bOut>>
extVars == <<panicVars, dispVars, apiVars, loadVars, pegVars, buildVars>>
coreVars == <<cfg, procVars, writerVars, closeVars, rcvVars, resVars, evVars, brokerVars, limVars>>
panicRest == <<coreVars, dispVars, apiVars, loadVars, pegVars, buildVars>>
dispRest == <<coreVars, panicVars, apiVars, loadVars, pegVars, buildVars>>
apiRest == <<coreVars, panicVars, dispVars, loadVars, pegVars, buildVars>>
loadRest == <<coreVars, panicVars, dispVars, apiVars, pegVars, buildVars>>
pegRest == <<coreVars, panicVars, dispVars, apiVars, loadVars, buildVars>>
buildRest == <<coreVars, panicVars, dispVars, apiVars, loadVars, pegVars>>
vars == <<cfg, procVars, writerVars, closeVars, rcvVars, resVars, evVars, brokerVars, limVars, extVars>>

\* A writer as Conn.Writer returns it: no lock held, no frame writer.
\* nextWriter and wrote are history: NextWriter was called, bytes were handed to the frame writer.
NewWriter == [init |-> FALSE, w |-> FALSE, nextWriter |-> FALSE, wrote |-> FALSE]

\* A message in writeMsg: its kind, the UUID it refers to, its code (ERR),
\* and over: whether its encoding is longer than the effective write limit.
NoMsg == [kind |-> None, ref |-> 0, code |-> 0, over |-> FALSE]

\* An outgoing message of kind k about r with code c, n bytes long once
\* encoded, with the fields the model keeps of it.
Msg(k, r, c, n) == [kind |-> k, ref |-> r, code |-> c, len |-> n]

\* Connections whose handler is wrapped by PanicRecover.
PanicConns == {1, 2}

\* What a handler may do: return, or panic with an error, with a value that
\* is not an error, or with nil.
NoPanic == [type |-> "nopanic", text |-> ""]
PanicValues ==
    {[type |-> "error", text |-> "e"],
     [type |-> "string", text |-> "s"],
     [type |-> "nil", text |-> ""]}

\* The cause of a connection that is not closed.
NoCause == [type |-> "none", text |-> ""]

\* No handler is wrapped yet and the connections are open.
PanicInit ==
    /\ prCfg = [wrapped |-> FALSE, closeConn |-> FALSE, printStack |-> FALSE]
    /\ prPc = [c \in PanicConns |-> "idle"]
    /\ prPanic = [c \in PanicConns |-> NoPanic]
    /\ prClosed = [c \in PanicConns |-> NoCause]
    /\ prHandled = [c \in PanicConns |-> 0]
    /\ prLogged = 0
    /\ prStacks = 0
    /\ prEscaped = FALSE

\* ProcessMsg was given nothing yet; the brokers were not invoked.
DispatchInit ==
    /\ dsLog = <<>>
    /\ dsPublish = <<>>
    /\ dsSubscribe = <<>>
    /\ dsUnsubscribe = <<>>

\* Tasks that use Conn.Writer themselves, and the ranks of their writers.
Tasks == {"t1", "t2"}
Ranks == 1..MaxWriters

\* Conn.Writer was not called yet for this task and rank.
NoWriter ==
    [made |-> FALSE, lockTimeout |-> 0, init |-> FALSE, w |-> FALSE,
     closed |-> FALSE, closes |-> 0, ret |-> "none"]

\* newConn has put the one permit in c.wmu; no task has asked for a writer.
ApiInit ==
    /\ uw = [t \in Tasks |-> [k \in Ranks |-> NoWriter]]
    /\ uwPc = [t \in Tasks |-> "idle"]
    /\ uwSel = [t \in Tasks |-> 1]
    /\ uwMu = 1

\* The calls a load client may issue.
ClientCalls == 1..MaxClientCalls

\* runClient has dialed; nothing was called yet.
LoadInit ==
    /\ ldPc = "loop"
    /\ ldStats = [Calls |-> 0, OK |-> 0, Res |-> 0, Exp |-> 0, Err |-> 0]
    /\ wgResults = 0
    /\ clIssued = {}
    /\ clPending = {}
    /\ clRes = [u \in ClientCalls |-> "none"]
    /\ clOK = {}
    /\ clGot = [u \in ClientCalls |-> [RES |-> 0, EXP |-> 0, ERR |-> 0]]
    /\ clErr = [u \in ClientCalls |-> "none"]

\* The zero rune a new parser holds, and utf8.RuneError.
NUL == "NUL"
RuneError == "RuneError"

\* The parser as parseUsingAST makes it: i, rn and w are zero, errs is
\* empty.
NewParser == [i |-> 0, rn |-> NUL, w |-> 0, errs |-> 0, panic |-> FALSE]

\* parse has not returned.
NoRet == [done |-> FALSE, ok |-> FALSE, val |-> "nil", err |-> "nil"]

\* A parser over no input yet.
PegInit ==
    /\ pData = <<>>
    /\ pSt = NewParser
    /\ pReads = 0
    /\ pGrammar = <<>>
    /\ pRet = NoRet

\* BuildParser was not called.
BuildInit ==
    /\ bPc = "idle"
    /\ bGrammar = [pkg |-> FALSE, rules |-> <<>>]
    /\ bRule = 1
    /\ bStack = <<>>
    /\ bExprIndex = 0
    /\ bErr = "nil"
    /\ bOut = 0

ExtInit == PanicInit /\ DispatchInit /\ ApiInit /\ LoadInit /\ PegInit /\ BuildInit

\* The connection's variables after newConn and the server's opening of the
\* two broker streams, with the three goroutines about to start.
ConnInit ==
    /\ ExtInit
    /\ pc = [p \in Procs |-> "loop"]
    /\ cur = [p \in Procs |-> NoMsg]
    /\ attempt = [p \in Procs |-> 1]
    /\ err = [p \in Procs |-> "nil"]
    /\ w = [p \in Procs |-> NewWriter]
    /\ wmu = 1
    /\ frame = None
    /\ interleaved = FALSE
    /\ closeArg = [p \in Procs |-> "nil"]
    /\ ret = [p \in Procs |-> "loop"]
    /\ once = "idle"
    /\ CloseErr = "nil"
    /\ closeErrWrites = 0
    /\ firstCause = None
    /\ pscCloses = 0
    /\ rescCloses = 0
    /\ killCloses = 0
    /\ wsClosed = FALSE
    /\ nRead = 0
    /\ enq = [u \in CallIds |-> None]
    /\ replies = [u \in CallIds |-> <<>>]
    /\ resList = <<>>
    /\ resKeys = {}
    /\ stored = {}
    /\ resCh = 0
    /\ resChClosed = FALSE
    /\ resErr = "nil"
    /\ resSent = [u \in CallIds |-> 0]
    /\ nEvents = 0
    /\ evCh = None
    /\ evChClosed = FALSE
    /\ evErr = "nil"
    /\ lwLen = 0
    /\ lwOut = None

\* A call-timeout key that does not exist.
NoKey == [val |-> 0, px |-> 0]

\* The broker's variables with the per-URI list empty.
BrokerInit ==
    /\ callList = <<>>
    /\ callKeys = {}
    /\ callReply = [u \in 1..MaxCalls |-> None]
    /\ pushOrder = <<>>
    /\ deq = <<>>
    /\ resultReply = [u \in 1..MaxCalls |-> None]
    /\ callKeyVal = [u \in 1..MaxCalls |-> NoKey]
    /\ callTimeout = [u \in 1..MaxCalls |-> 0]

\* ------------------------------------------------ writeMsg, exclusiveWriter

\* limitWriter without the floor.
EffectiveLimitAsGiven(limit) == limit

\* limitWriter: a limit below minLimit is raised to minLimit.
EffectiveLimit(limit) == IF limit < minLimit THEN minLimit ELSE limit

\* limitedWriter.Write with the test off by one byte: w.n < -1.
LimitedWriterExceedsLate(n, limit) == limit - n < -1

\* limitedWriter.Write: w.n -= len(p); w.n < 0 fails the write. json's
\* Encoder hands the whole encoding to the writer in one Write, so n is the
\* encoded length and limit the writer's initial w.n.
LimitedWriterExceeds(n, limit) == limit - n < 0

\* Whether n bytes are more than the write limit in effect: none when
\* WriteLimit is 0, otherwise WriteLimit or minLimit, whichever is larger.
OverLimit(n) ==
    /\ cfg.writeLimit > 0
    /\ n > (IF cfg.writeLimit > minLimit THEN cfg.writeLimit ELSE minLimit)

\* writeMsg: with WriteLimit > 0 the encoder writes through a limitedWriter,
\* which refuses an encoding of n bytes over its limit before the
\* exclusiveWriter sees it; writeMsg then returns errWriteLimitExceeded.
Refused(n) ==
    /\ cfg.writeLimit > 0
    /\ LimitedWriterExceeds(n, EffectiveLimit(cfg.writeLimit))

\* exclusiveWriter.Close that returns early when there is no frame writer
\* to close, without sending the token back.
ExclusiveCloseNoFrame(p, wr) ==
    IF ~wr.init \/ ~wr.w
    THEN UNCHANGED <<wmu, frame>>
    ELSE /\ wmu < 1
         /\ wmu' = wmu + 1
         /\ frame' = IF frame = p THEN None ELSE frame

\* exclusiveWriter.Close on a writer in state wr: a no-op when init is
\* false; otherwise the frame writer, if any, is closed and the token is
\* sent back on wmu (the send blocks while the channel is full).
ExclusiveClose(p, wr) ==
    IF ~wr.init
    THEN UNCHANGED <<wmu, frame>>
    ELSE /\ wmu < 1
         /\ wmu' = wmu + 1
         /\ frame' = IF wr.w /\ frame = p THEN None ELSE frame

\* writeMsg(c, m) as attempt a of ProcessMsg: c.Writer builds a fresh
\* exclusiveWriter and the encoding of m reaches its Write.
Enter(p, m, a) ==
    /\ cur' = [cur EXCEPT ![p] = [kind |-> m.kind, ref |-> m.ref, code |-> m.code, over |-> OverLimit(m.len)]]
    /\ attempt' = [attempt EXCEPT ![p] = a]
    /\ w' = [w EXCEPT ![p] = NewWriter]
    /\ pc' = [pc EXCEPT ![p] = "ew_lock"]

\* ProcessMsg that, when the limit refuses m, hands m itself to the writer
\* once more in the place of an ERR 550 about it.
SendRetriesOriginal(p, m) ==
    IF ~Refused(m.len)
    THEN Enter(p, m, 1)
    ELSE Enter(p, m, 2)

\* Conn.Send with no Server.Handler, and ProcessMsg's case for OK, ERR, EVNT
\* and RES, called from the goroutine's loop: writeMsg(c, m); when the limit
\* refuses m, the error is logged and one ERR 550 about m goes to writeMsg;
\* when the limit refuses that too, it is logged and ProcessMsg returns. A
\* refused writeMsg leaves its exclusiveWriter untouched, so its deferred
\* Close does nothing.
Send(p, m) ==
    IF ~Refused(m.len)
    THEN Enter(p, m, 1)
    ELSE \E n \in MsgLens :
           IF ~Refused(n)
           THEN Enter(p, Msg("ERR", m.ref, 550, n), 2)
           ELSE UNCHANGED <<pc, cur, attempt, w>>

\* A call of Conn.Close(cause) by goroutine p, which continues at retpc.
CallClose(p, cause, retpc) ==
    /\ closeArg' = [closeArg EXCEPT ![p] = cause]
    /\ ret' = [ret EXCEPT ![p] = retpc]
    /\ pc' = [pc EXCEPT ![p] = "cl_do"]

\* writeMsg is over and its exclusiveWriter is garbage.
Forget(p) ==
    /\ cur' = [cur EXCEPT ![p] = NoMsg]
    /\ attempt' = [attempt EXCEPT ![p] = 1]
    /\ err' = [err EXCEPT ![p] = "nil"]
    /\ w' = [w EXCEPT ![p] = NewWriter]

\* exclusiveWriter.Write that sets init without receiving from wmu.
EW_LockNoReceive(p) ==
    /\ pc[p] = "ew_lock"
    /\ wmu' = wmu
    /\ w' = [w EXCEPT ![p].init = TRUE]
    /\ pc' = [pc EXCEPT ![p] = "ew_frame"]
    /\ UNCHANGED <<cfg, cur, attempt, err, closeArg, ret, frame, interleaved>>
    /\ UNCHANGED <<closeVars, rcvVars, resVars, evVars, brokerVars, limVars, extVars>>

\* exclusiveWriter.Write, first call, case <-w.writeLock: the token is taken
\* from wmu and init is set.
EW_Lock(p) ==
    /\ pc[p] = "ew_lock"
    /\ wmu > 0
    /\ wmu' = wmu - 1
    /\ w' = [w EXCEPT ![p].init = TRUE]
    /\ pc' = [pc EXCEPT ![p] = "ew_frame"]
    /\ UNCHANGED <<cfg, cur, attempt, err, closeArg, ret, frame, interleaved>>
    /\ UNCHANGED <<closeVars, rcvVars, resVars, evVars, brokerVars, limVars, extVars>>

\* case <-wait on a writer whose init was set before the select.
LockTimedOutInit(wr) == [wr EXCEPT !.init = TRUE]

\* The writer as case <-wait leaves it: return 0, ErrWriteLockTimeout, with
\* every field as it was.
LockTimedOut(wr) == wr

\* exclusiveWriter.Write that arms the timer whatever lockTimeout is.
EW_TimeoutAlways(p) ==
    /\ pc[p] = "ew_lock"
    /\ ExclusiveClose(p, LockTimedOut(w[p]))
    /\ CallClose(p, "writelock", "loop")
    /\ Forget(p)
    /\ UNCHANGED <<cfg, interleaved>>
    /\ UNCHANGED <<closeVars, rcvVars, resVars, evVars, brokerVars, limVars, extVars>>

\* ProcessMsg that only logs the lock-timeout error.
EW_TimeoutLogged(p) ==
    /\ pc[p] = "ew_lock"
    /\ cfg.lockTimeout > 0
    /\ ExclusiveClose(p, LockTimedOut(w[p]))
    /\ pc' = [pc EXCEPT ![p] = "loop"]
    /\ Forget(p)
    /\ UNCHANGED <<cfg, closeArg, ret, interleaved>>
    /\ UNCHANGED <<closeVars, rcvVars, resVars, evVars, brokerVars, limVars, extVars>>

\* exclusiveWriter.Write, first call, case <-wait: with lockTimeout > 0 the
\* timer may fire before the token is received, and Write returns
\* (0, ErrWriteLockTimeout). The encoder returns the error, writeMsg's
\* deferred Close runs, and ProcessMsg closes the connection for
\* ErrLockWriterTimeout, on either attempt.
EW_Timeout(p) ==
    /\ pc[p] = "ew_lock"
    /\ cfg.lockTimeout > 0
    /\ ExclusiveClose(p, LockTimedOut(w[p]))
    /\ CallClose(p, "writelock", "loop")
    /\ Forget(p)
    /\ UNCHANGED <<cfg, interleaved>>
    /\ UNCHANGED <<closeVars, rcvVars, resVars, evVars, brokerVars, limVars, extVars>>

\* exclusiveWriter.Write after the lock was acquired: wsConn.NextWriter
\* opens a text frame or fails (always once the websocket connection is
\* closed); on failure Write returns the error with w.w still nil. Then the
\* write deadline is set and w.w.Write(p) hands the bytes to the frame, or
\* fails.
EW_Frame(p) ==
    /\ pc[p] = "ew_frame"
    /\ \E res \in {"ok", "nextwriter", "write"} :
         /\ res = "ok" => ~wsClosed
         /\ IF res = "nextwriter"
            THEN /\ w' = [w EXCEPT ![p].nextWriter = TRUE]
                 /\ UNCHANGED <<frame, interleaved>>
            ELSE /\ w' = [w EXCEPT ![p].nextWriter = TRUE, ![p].w = TRUE, ![p].wrote = (res = "ok")]
                 /\ interleaved' = (interleaved \/ frame # None)
                 /\ frame' = p
         /\ err' = [err EXCEPT ![p] = IF res = "ok" THEN "nil" ELSE "Transport"]
    /\ pc' = [pc EXCEPT ![p] = "ew_close"]
    /\ UNCHANGED <<cfg, cur, attempt, closeArg, ret, wmu>>
    /\ UNCHANGED <<closeVars, rcvVars, resVars, evVars, brokerVars, limVars, extVars>>

\* The end of writeMsg after the exclusiveWriter's Write returned: the
\* deferred w.Close() runs (writeMsg drops the value it returns) and
\* writeMsg returns nil or the transport's error, which ProcessMsg logs
\* (default case) before it returns to the loop.
WM_Finish(p) ==
    /\ pc[p] = "ew_close"
    /\ ExclusiveClose(p, w[p])
    /\ Forget(p)
    /\ pc' = [pc EXCEPT ![p] = "loop"]
    /\ UNCHANGED <<cfg, closeArg, ret, interleaved>>
    /\ UNCHANGED <<closeVars, rcvVars, resVars, evVars, brokerVars, limVars, extVars>>

\* --------------------------------------------------------------- Conn.Close

\* Conn.Close returns to its caller.
CloseReturn(p) ==
    /\ pc' = [pc EXCEPT ![p] = ret[p]]
    /\ closeArg' = [closeArg EXCEPT ![p] = "nil"]
    /\ ret' = [ret EXCEPT ![p] = "loop"]

\* Conn.Close without the Once: every caller runs the function.
CL_DoEveryCall(p) ==
    /\ pc[p] = "cl_do"
    /\ once' = "running"
    /\ firstCause' = IF once = "idle" THEN closeArg[p] ELSE firstCause
    /\ pc' = [pc EXCEPT ![p] = "cl_err"]
    /\ UNCHANGED <<closeArg, ret>>
    /\ UNCHANGED <<cfg, cur, attempt, err, writerVars>>
    /\ UNCHANGED <<CloseErr, closeErrWrites, pscCloses, rescCloses, killCloses>>
    /\ UNCHANGED <<rcvVars, resVars, evVars, brokerVars, limVars, extVars>>

\* closeOnce.Do: the first caller runs the function; a caller arriving while
\* it runs blocks until it has returned; later callers return at once.
CL_Do(p) ==
    /\ pc[p] = "cl_do"
    /\ once # "running"
    /\ IF once = "idle"
       THEN /\ once' = "running"
            /\ firstCause' = closeArg[p]
            /\ pc' = [pc EXCEPT ![p] = "cl_err"]
            /\ UNCHANGED <<closeArg, ret>>
       ELSE /\ CloseReturn(p)
            /\ UNCHANGED <<once, firstCause>>
    /\ UNCHANGED <<cfg, cur, attempt, err, writerVars>>
    /\ UNCHANGED <<CloseErr, closeErrWrites, pscCloses, rescCloses, killCloses>>
    /\ UNCHANGED <<rcvVars, resVars, evVars, brokerVars, limVars, extVars>>

\* c.CloseErr = err, with c.psc.Close() moved after close(c.kill) and so
\* not run by the time the notification is given.
CL_SetErrThenResc(p) ==
    /\ pc[p] = "cl_err"
    /\ CloseErr' = closeArg[p]
    /\ closeErrWrites' = closeErrWrites + 1
    /\ pc' = [pc EXCEPT ![p] = "cl_resc"]
    /\ UNCHANGED <<cfg, cur, attempt, err, closeArg, ret, writerVars>>
    /\ UNCHANGED <<once, firstCause, pscCloses, rescCloses, killCloses>>
    /\ UNCHANGED <<rcvVars, resVars, evVars, brokerVars, limVars, extVars>>

\* c.CloseErr = err
CL_SetErr(p) ==
    /\ pc[p] = "cl_err"
    /\ CloseErr' = closeArg[p]
    /\ closeErrWrites' = closeErrWrites + 1
    /\ pc' = [pc EXCEPT ![p] = "cl_psc"]
    /\ UNCHANGED <<cfg, cur, attempt, err, closeArg, ret, writerVars>>
    /\ UNCHANGED <<once, firstCause, pscCloses, rescCloses, killCloses>>
    /\ UNCHANGED <<rcvVars, resVars, evVars, brokerVars, limVars, extVars>>

\* c.psc.Close()
CL_Psc(p) ==
    /\ pc[p] = "cl_psc"
    /\ pscCloses' = pscCloses + 1
    /\ pc' = [pc EXCEPT ![p] = "cl_resc"]
    /\ UNCHANGED <<cfg, cur, attempt, err, closeArg, ret, writerVars>>
    /\ UNCHANGED <<once, firstCause, CloseErr, closeErrWrites, rescCloses, killCloses>>
    /\ UNCHANGED <<rcvVars, resVars, evVars, brokerVars, limVars, extVars>>

\* Conn.Close that leaves the results handle open.
CL_RescLeftOpen(p) ==
    /\ pc[p] = "cl_resc"
    /\ pc' = [pc EXCEPT ![p] = "cl_kill"]
    /\ UNCHANGED <<cfg, cur, attempt, err, closeArg, ret, writerVars>>
    /\ UNCHANGED <<closeVars, rcvVars, resVars, evVars, brokerVars, limVars, extVars>>

\* c.resc.Close()
CL_Resc(p) ==
    /\ pc[p] = "cl_resc"
    /\ rescCloses' = rescCloses + 1
    /\ pc' = [pc EXCEPT ![p] = "cl_kill"]
    /\ UNCHANGED <<cfg, cur, attempt, err, closeArg, ret, writerVars>>
    /\ UNCHANGED <<once, firstCause, CloseErr, closeErrWrites, pscCloses, killCloses>>
    /\ UNCHANGED <<rcvVars, resVars, evVars, brokerVars, limVars, extVars>>

\* Conn.Close that also closes the websocket connection.
CL_KillClosesWs(p) ==
    /\ pc[p] = "cl_kill"
    /\ killCloses' = killCloses + 1
    /\ once' = "done"
    /\ wsClosed' = TRUE
    /\ CloseReturn(p)
    /\ UNCHANGED <<cfg, cur, attempt, err, writerVars>>
    /\ UNCHANGED <<firstCause, CloseErr, closeErrWrites, pscCloses, rescCloses>>
    /\ UNCHANGED <<nRead, enq, replies>>
    /\ UNCHANGED <<resVars, evVars, brokerVars, limVars, extVars>>

\* close(c.kill); the function returns and the Once is done.
CL_Kill(p) ==
    /\ pc[p] = "cl_kill"
    /\ killCloses' = killCloses + 1
    /\ once' = "done"
    /\ CloseReturn(p)
    /\ UNCHANGED <<cfg, cur, attempt, err, writerVars>>
    /\ UNCHANGED <<firstCause, CloseErr, closeErrWrites, pscCloses, rescCloses>>
    /\ UNCHANGED <<rcvVars, resVars, evVars, brokerVars, limVars, extVars>>

\* ------------------------------------------------------------ Conn.receive

receiver == "receive"

\* A read loop that closes the connection on a failure and reads on.
RD_FailReadsOn ==
    /\ pc[receiver] = "loop"
    /\ \E cause \in {"read", "msgtype", "decode"} :
         /\ cause # "read" => ~wsClosed
         /\ CallClose(receiver, cause, "loop")
    /\ UNCHANGED <<cfg, cur, attempt, err, writerVars>>
    /\ UNCHANGED <<closeVars, rcvVars, resVars, evVars, brokerVars, limVars, extVars>>

\* The read loop's failures: NextReader returns an error (a transport error,
\* a deadline, or the closed connection), the frame is not a text frame, or
\* UnmarshalRequest fails. Each closes the connection and ends the loop.
RD_Fail ==
    /\ pc[receiver] = "loop"
    /\ \E cause \in {"read", "msgtype", "decode"} :
         /\ cause # "read" => ~wsClosed
         /\ CallClose(receiver, cause, "done")
    /\ UNCHANGED <<cfg, cur, attempt, err, writerVars>>
    /\ UNCHANGED <<closeVars, rcvVars, resVars, evVars, brokerVars, limVars, extVars>>

\* ProcessMsg that answers OK whatever the enqueue returned.
CallReplyAlwaysOK(u, res) == [kind |-> "OK", ref |-> u, code |-> 0]

\* The reply ProcessMsg builds for a Call: NewErr(m, 500, err) when the
\* enqueue failed, NewOK(m) otherwise.
CallReply(u, res) ==
    IF res = "fail" THEN [kind |-> "ERR", ref |-> u, code |-> 500]
                    ELSE [kind |-> "OK", ref |-> u, code |-> 0]

\* ProcessMsg, case Call, for call u: the enqueue on the caller broker
\* succeeds or fails, and the reply is handed to c.Send.
PM_Call(u) ==
    \E res \in {"ok", "fail"} :
      /\ enq' = [enq EXCEPT ![u] = res]
      /\ LET r == CallReply(u, res)
         IN /\ replies' = [replies EXCEPT ![u] = Append(@, r)]
            /\ \E n \in MsgLens : Send(receiver, Msg(r.kind, r.ref, r.code, n))

\* A text frame that decodes to a request is handed to ProcessMsg. The
\* cases for Auth, Pub, Sub and Unsb are empty: ProcessMsg returns and the
\* loop reads on. A Call is enqueued and answered.
RD_Msg ==
    /\ pc[receiver] = "loop"
    /\ ~wsClosed
    /\ nRead + nEvents < MaxInputs
    /\ nRead' = nRead + 1
    /\ \E kind \in ReadKinds :
         IF kind = "CALL"
         THEN PM_Call(nRead + 1)
         ELSE UNCHANGED <<pc, cur, attempt, w, enq, replies>>
    /\ UNCHANGED <<cfg, err, closeArg, ret, wmu, frame, interleaved>>
    /\ UNCHANGED <<wsClosed>>
    /\ UNCHANGED <<closeVars, resVars, evVars, brokerVars, limVars, extVars>>

\* ------------------------------------------------------------ Conn.results

\* A results loop that sends the RES and leaves the payload to be sent again.
RS_RecvKeeps ==
    /\ pc["results"] = "loop"
    /\ resCh # 0
    /\ resSent[resCh] < 2
    /\ resSent' = [resSent EXCEPT ![resCh] = @ + 1]
    /\ \E n \in MsgLens :
         Send("results", Msg("RES", resCh, 0, n))
    /\ resCh' = resCh
    /\ UNCHANGED <<cfg, err, closeArg, ret, wmu, frame, interleaved>>
    /\ UNCHANGED <<resList, resKeys, stored, resChClosed, resErr>>
    /\ UNCHANGED <<closeVars, rcvVars, evVars, brokerVars, limVars, extVars>>

\* for res := range ch { c.Send(msg.NewRes(res)) }
RS_Recv ==
    /\ pc["results"] = "loop"
    /\ resCh # 0
    /\ resSent' = [resSent EXCEPT ![resCh] = @ + 1]
    /\ \E n \in MsgLens :
         Send("results", Msg("RES", resCh, 0, n))
    /\ resCh' = 0
    /\ UNCHANGED <<cfg, err, closeArg, ret, wmu, frame, interleaved>>
    /\ UNCHANGED <<resList, resKeys, stored, resChClosed, resErr>>
    /\ UNCHANGED <<closeVars, rcvVars, evVars, brokerVars, limVars, extVars>>

\* The channel is closed: the loop ends with c.Close(c.resc.ResultsErr()).
RS_End ==
    /\ pc["results"] = "loop"
    /\ resChClosed
    /\ resCh = 0
    /\ CallClose("results", resErr, "done")
    /\ UNCHANGED <<cfg, cur, attempt, err, writerVars>>
    /\ UNCHANGED <<closeVars, rcvVars, resVars, evVars, brokerVars, limVars, extVars>>

\* ------------------------------------------------------------- Conn.pubSub

\* for ev := range ch { c.Send(msg.NewEvnt(ev)) }
PS_Recv ==
    /\ pc["pubSub"] = "loop"
    /\ evCh # None
    /\ \E n \in MsgLens :
         Send("pubSub", Msg("EVNT", 0, 0, n))
    /\ evCh' = None
    /\ UNCHANGED <<cfg, err, closeArg, ret, wmu, frame, interleaved>>
    /\ UNCHANGED <<nEvents, evChClosed, evErr>>
    /\ UNCHANGED <<closeVars, rcvVars, resVars, brokerVars, limVars, extVars>>

\* A pub/sub loop that ends with c.Close(nil).
PS_EndNoCause ==
    /\ pc["pubSub"] = "loop"
    /\ evChClosed
    /\ evCh = None
    /\ CallClose("pubSub", "nil", "done")
    /\ UNCHANGED <<cfg, cur, attempt, err, writerVars>>
    /\ UNCHANGED <<closeVars, rcvVars, resVars, evVars, brokerVars, limVars, extVars>>

\* The channel is closed: the loop ends with c.Close(c.psc.EventsErr()).
PS_End ==
    /\ pc["pubSub"] = "loop"
    /\ evChClosed
    /\ evCh = None
    /\ CallClose("pubSub", evErr, "done")
    /\ UNCHANGED <<cfg, cur, attempt, err, writerVars>>
    /\ UNCHANGED <<closeVars, rcvVars, resVars, evVars, brokerVars, limVars, extVars>>

\* ------------------------------------------- the connection's surroundings

\* PubSubConn.Events: an event published on a subscribed channel is offered
\* on the events channel.
EventArrives ==
    /\ ~evChClosed
    /\ evCh = None
    /\ nRead + nEvents < MaxInputs
    /\ evCh' = "event"
    /\ nEvents' = nEvents + 1
    /\ UNCHANGED <<evChClosed, evErr>>
    /\ UNCHANGED <<cfg, procVars, writerVars, closeVars, rcvVars, resVars, brokerVars, limVars, extVars>>

\* PubSubConn.Events: the channel is closed when the connection is closed
\* (EventsErr stays nil) or when an error is received (EventsErr is it).
EventsEnd ==
    /\ ~evChClosed
    /\ \/ pscCloses > 0 /\ evErr' = evErr
       \/ evErr' = "pubsub"
    /\ evChClosed' = TRUE
    /\ evCh' = None
    /\ UNCHANGED nEvents
    /\ UNCHANGED <<cfg, procVars, writerVars, closeVars, rcvVars, resVars, brokerVars, limVars, extVars>>

\* A callee stores the result of call u, which was enqueued: LPUSH on the
\* caller's result list and SET of the result-timeout key.
CalleeStoreResult(u) ==
    /\ enq[u] = "ok"
    /\ u \notin stored
    /\ stored' = stored \cup {u}
    /\ resList' = <<u>> \o resList
    /\ resKeys' = resKeys \cup {u}
    /\ UNCHANGED <<resCh, resChClosed, resErr, resSent>>
    /\ UNCHANGED <<cfg, procVars, writerVars, closeVars, rcvVars, evVars, brokerVars, limVars, extVars>>

\* The result-timeout key of call u expires.
ResultKeyExpires(u) ==
    /\ u \in resKeys
    /\ resKeys' = resKeys \ {u}
    /\ UNCHANGED <<resList, stored, resCh, resChClosed, resErr, resSent>>
    /\ UNCHANGED <<cfg, procVars, writerVars, closeVars, rcvVars, evVars, brokerVars, limVars, extVars>>

\* The results stream's pump: BRPOP takes the oldest payload of the result
\* list; the result-timeout key is deleted, and the payload is offered on
\* the results channel only if the key was still there.
ResultsPump ==
    /\ ~resChClosed
    /\ resCh = 0
    /\ resList # <<>>
    /\ LET u == resList[Len(resList)]
       IN /\ resList' = SubSeq(resList, 1, Len(resList) - 1)
          /\ resKeys' = resKeys \ {u}
          /\ resCh' = IF u \in resKeys THEN u ELSE 0
    /\ UNCHANGED <<stored, resChClosed, resErr, resSent>>
    /\ UNCHANGED <<cfg, procVars, writerVars, closeVars, rcvVars, evVars, brokerVars, limVars, extVars>>

\* ResultsConn.Results: the channel is closed when the handle is closed
\* (ResultsErr stays nil) or when the broker fails (ResultsErr is the error).
ResultsEnd ==
    /\ ~resChClosed
    /\ \/ rescCloses > 0 /\ resErr' = resErr
       \/ resErr' = "results"
    /\ resChClosed' = TRUE
    /\ resCh' = 0
    /\ UNCHANGED <<resList, resKeys, stored, resSent>>
    /\ UNCHANGED <<cfg, procVars, writerVars, closeVars, rcvVars, evVars, brokerVars, limVars, extVars>>

\* The upgrader closes the websocket connection once the close notification
\* was given; Conn.Close itself leaves the websocket connection alone.
UpgraderClose ==
    /\ killCloses > 0
    /\ ~wsClosed
    /\ wsClosed' = TRUE
    /\ UNCHANGED <<nRead, enq, replies>>
    /\ UNCHANGED <<cfg, procVars, writerVars, closeVars, resVars, evVars, brokerVars, limVars, extVars>>

\* ------------------------------------------------ redisbroker: Broker.Call

\* Values of CallCap explored (0: no capacity).
CallCaps == {0, 1, 2}

\* Lua values. redis hands KEYS and ARGV to a script as strings; the integer
\* reply of LPUSH is a number.
LuaNumber(n) == [type |-> "number", val |-> n]
LuaString(n) == [type |-> "string", val |-> n]

\* Lua 5.1's a > b: two numbers compare as numbers; a number and a string
\* raise "attempt to compare number with string" (relational operators do
\* not coerce). The script compares no two strings.
LuaGT(a, b) ==
    IF a.type = "number" /\ b.type = "number"
    THEN [error |-> FALSE, val |-> a.val > b.val]
    ELSE [error |-> TRUE, val |-> FALSE]

\* Lua's a + n, which does coerce a numeric string.
LuaAdd(a, n) == a.val + n

\* LTRIM key start stop on a list held head first: the elements at the
\* zero-based positions start..stop stay.
LTrim(list, start, stop) ==
    SubSeq(list, start + 1, IF stop + 1 < Len(list) THEN stop + 1 ELSE Len(list))

\* callScript with RPUSH in the place of LPUSH.
CallScriptPushTail(list, keys, u, cap) ==
    LET keys1 == keys \cup {u}
        list1 == list \o <<u>>
        res == LuaNumber(Len(list1))
        argv3 == LuaString(cap)
        over == LuaGT(res, argv3)
        capped == IF over.error \/ ~over.val THEN over ELSE LuaGT(argv3, LuaNumber(0))
    IN  IF capped.error
        THEN [list |-> list1, keys |-> keys1, reply |-> "script error"]
        ELSE IF capped.val
        THEN [list |-> LTrim(list1, 1, LuaAdd(argv3, 1)), keys |-> keys1,
              reply |-> "list capacity exceeded"]
        ELSE [list |-> list1, keys |-> keys1, reply |-> "ok"]

\* callScript, run by EVAL as one atomic step, for payload u with
\* ARGV[3] = cap: SET of the timeout key, LPUSH of the payload, then the
\* test "res > ARGV[3] and ARGV[3] > 0". A script that raises an error stops
\* there, what it wrote stays written, and EVAL returns the error.
CallScript(list, keys, u, cap) ==
    LET keys1 == keys \cup {u}
        list1 == <<u>> \o list
        res == LuaNumber(Len(list1))
        argv3 == LuaString(cap)
        over == LuaGT(res, argv3)
        capped == IF over.error \/ ~over.val THEN over ELSE LuaGT(argv3, LuaNumber(0))
    IN  IF capped.error
        THEN [list |-> list1, keys |-> keys1, reply |-> "script error"]
        ELSE IF capped.val
        THEN [list |-> LTrim(list1, 1, LuaAdd(argv3, 1)), keys |-> keys1,
              reply |-> "list capacity exceeded"]
        ELSE [list |-> list1, keys |-> keys1, reply |-> "ok"]

\* Durations are counted in microseconds.
Millisecond == 1000
defaultCallTimeout == 60000000

\* Go's integer division, which truncates toward zero.
TruncDiv(a, b) == IF a >= 0 THEN a \div b ELSE -((-a) \div b)

\* Broker.Call that passes the truncated timeout as it is.
CallTimeoutMsNoDefault(timeout) == TruncDiv(timeout, Millisecond)

\* to := int(timeout / time.Millisecond), replaced by the default's
\* milliseconds when it is 0.
CallTimeoutMs(timeout) ==
    LET to == TruncDiv(timeout, Millisecond)
    IN  IF to = 0 THEN TruncDiv(defaultCallTimeout, Millisecond) ELSE to

\* SET KEYS[1] ARGV[1] "PX" ARGV[1]: redis refuses an expire time that is
\* not positive, otherwise the key holds ARGV[1] and expires after ARGV[1] ms.
ValidPX(px) == px > 0
ScriptSet(argv1) == [val |-> argv1, px |-> argv1]

\* Broker.Call for the call with message UUID u and the given timeout:
\* json.Marshal fails and Call returns its error, or the script is run on
\* the URI's list and the call's timeout key and Call returns EVAL's error.
\* A SET that redis refuses raises the error in the script's first line,
\* before anything is written.
BrokerCall(u, timeout) ==
    /\ callReply[u] = None
    /\ callTimeout' = [callTimeout EXCEPT ![u] = timeout]
    /\ \/ /\ callReply' = [callReply EXCEPT ![u] = "marshal error"]
          /\ UNCHANGED <<callList, callKeys, pushOrder, callKeyVal>>
       \/ LET to == CallTimeoutMs(timeout)
              r == CallScript(callList, callKeys, u, callCap)
          IN IF ~ValidPX(to)
             THEN /\ callReply' = [callReply EXCEPT ![u] = "script error"]
                  /\ UNCHANGED <<callList, callKeys, pushOrder, callKeyVal>>
             ELSE /\ callList' = r.list
                  /\ callKeys' = r.keys
                  /\ callKeyVal' = [callKeyVal EXCEPT ![u] = ScriptSet(to)]
                  /\ callReply' = [callReply EXCEPT ![u] = IF r.reply = "ok" THEN "nil" ELSE r.reply]
                  /\ pushOrder' = IF \E i \in 1..Len(r.list) : r.list[i] = u
                                  THEN Append(pushOrder, u)
                                  ELSE pushOrder
    /\ UNCHANGED <<callCap, deq, resultReply, resultCap>>
    /\ UNCHANGED <<cfg, procVars, writerVars, closeVars, rcvVars, resVars, evVars, limVars, extVars>>

\* A callee's calls stream takes the oldest payload of the URI's list (BRPOP).
CalleeDequeue ==
    /\ callList # <<>>
    /\ callList' = SubSeq(callList, 1, Len(callList) - 1)
    /\ deq' = Append(deq, callList[Len(callList)])
    /\ UNCHANGED <<callCap, callKeys, callReply, pushOrder, resultReply, resultCap, callKeyVal, callTimeout>>
    /\ UNCHANGED <<cfg, procVars, writerVars, closeVars, rcvVars, resVars, evVars, limVars, extVars>>

\* The timeout key of call u expires.
CallKeyExpires(u) ==
    /\ u \in callKeys
    /\ callKeys' = callKeys \ {u}
    /\ callKeyVal' = [callKeyVal EXCEPT ![u] = NoKey]
    /\ UNCHANGED <<callCap, callList, callReply, pushOrder, deq, resultReply, resultCap, callTimeout>>
    /\ UNCHANGED <<cfg, procVars, writerVars, closeVars, rcvVars, resVars, evVars, limVars, extVars>>

\* Broker.Result for the result of call u, which a callee took from the
\* list: the body is "TODO : implement...", nothing is stored, ResultCap is
\* not looked at and Result returns nil.
BrokerResult(u) ==
    /\ \E i \in 1..Len(deq) : deq[i] = u
    /\ resultReply[u] = None
    /\ resultReply' = [resultReply EXCEPT ![u] = "nil"]
    /\ UNCHANGED <<callCap, callList, callKeys, callReply, pushOrder, deq, resultCap, callKeyVal, callTimeout>>
    /\ UNCHANGED <<cfg, procVars, writerVars, closeVars, rcvVars, resVars, evVars, limVars, extVars>>

\* ------------------------------------------------------ the specifications

\* A connection served by a server with any of the configurations; the
\* broker's store is not looked at.
Init ==
    /\ cfg \in [lockTimeout : LockTimeouts, writeLimit : WriteLimits]
    /\ ConnInit
    /\ BrokerInit
    /\ callCap = 0
    /\ resultCap = 0

Writer(p) ==
    \/ EW_Lock(p)
    \/ EW_Timeout(p)
    \/ EW_Frame(p)
    \/ WM_Finish(p)

ConnClose(p) ==
    \/ CL_Do(p)
    \/ CL_SetErr(p)
    \/ CL_Psc(p)
    \/ CL_Resc(p)
    \/ CL_Kill(p)

Receive == RD_Fail \/ RD_Msg

Results == RS_Recv \/ RS_End

PubSub == PS_Recv \/ PS_End

Surroundings ==
    \/ EventArrives
    \/ EventsEnd
    \/ \E u \in CallIds : CalleeStoreResult(u)
    \/ \E u \in CallIds : ResultKeyExpires(u)
    \/ ResultsPump
    \/ ResultsEnd
    \/ UpgraderClose

Next ==
    \/ \E p \in Procs : Writer(p)
    \/ \E p \in Procs : ConnClose(p)
    \/ Receive
    \/ Results
    \/ PubSub
    \/ Surroundings

Spec == Init /\ [][Next]_vars

\* The broker alone: Broker.Call invocations by any callers, the callees'
\* dequeues against one URI and their Broker.Result calls, for each CallCap;
\* no connection moves.
BrokerInitAll ==
    /\ cfg = [lockTimeout |-> 0, writeLimit |-> 0]
    /\ ConnInit
    /\ BrokerInit
    /\ callCap \in CallCaps
    /\ resultCap \in CallCaps

BrokerNext ==
    \/ \E u \in 1..MaxCalls : BrokerCall(u, 0)
    \/ CalleeDequeue
    \/ \E u \in 1..MaxCalls : CallKeyExpires(u)
    \/ \E u \in 1..MaxCalls : BrokerResult(u)

BrokerSpec == BrokerInitAll /\ [][BrokerNext]_vars

\* ------------------------------------------------------------- fairness

\* What the scheduling gives: a goroutine that can take a step does take it
\* (the acquisition of the token, the frame write, the end of writeMsg, the
\* steps of Conn.Close, the loops' receive from their channel); a closed
\* broker handle closes its channel; the upgrader closes the websocket
\* connection after the close notification; a read on the closed websocket
\* connection returns an error. The lock timer, the failures of the broker
\* and of the open transport, and the arrival of inputs are not forced.
Fairness ==
    /\ \A p \in Procs : WF_vars(EW_Lock(p))
    /\ \A p \in Procs : WF_vars(EW_Frame(p))
    /\ \A p \in Procs : WF_vars(WM_Finish(p))
    /\ \A p \in Procs : WF_vars(ConnClose(p))
    /\ WF_vars(Results)
    /\ WF_vars(PubSub)
    /\ WF_vars(RD_Fail /\ wsClosed)
    /\ WF_vars(EventsEnd /\ pscCloses > 0)
    /\ WF_vars(ResultsEnd /\ rescCloses > 0)
    /\ WF_vars(UpgraderClose)

FairSpec == Init /\ [][Next]_vars /\ Fairness

\* ------------------------------------------------------------ properties

\* The goroutines whose exclusiveWriter holds the write lock.
Holders == {p \in Procs : w[p].init}

\* C1: at most one exclusiveWriter holds the write lock at a time, the open
\* frame belongs to the holder, and no writer ever opened or wrote a frame
\* while another writer's frame was open.
C1_OneWriter ==
    /\ Cardinality(Holders) <= 1
    /\ frame # None => frame \in Holders
    /\ ~interleaved

\* C1 happens: one writer has its frame open while another waits for the lock.
C1_Contended ==
    \E p, q \in Procs :
        /\ p # q
        /\ frame = p
        /\ w[p].wrote
        /\ pc[q] = "ew_lock"

\* C2: the tokens in wmu plus the writers holding the lock are exactly one,
\* and a goroutine that is not inside writeMsg's Write or deferred Close
\* holds nothing.
C2_PermitBalance ==
    /\ wmu + Cardinality(Holders) = 1
    /\ \A p \in Procs : pc[p] \notin {"ew_frame", "ew_close"} => p \notin Holders

\* C2 happens: with no write limit and no lock timeout the read loop has
\* answered a CALL, so its writeMsg took the token, and it is back reading
\* with the token in wmu.
C2_Released ==
    /\ cfg = [lockTimeout |-> 0, writeLimit |-> 0]
    /\ enq[1] # None
    /\ pc[receiver] = "loop"
    /\ Holders = {}
    /\ wmu = 1

\* C3: CloseErr is assigned at most once and holds the argument of the call
\* that ran the Once; psc.Close, resc.Close and close(kill) run at most once,
\* and exactly once each when the Once is done.
C3_CloseOnce ==
    /\ closeErrWrites <= 1
    /\ pscCloses <= 1
    /\ rescCloses <= 1
    /\ killCloses <= 1
    /\ closeErrWrites = 1 => CloseErr = firstCause
    /\ once = "done" =>
         /\ closeErrWrites = 1
         /\ pscCloses = 1
         /\ rescCloses = 1
         /\ killCloses = 1

\* C3 happens: the read loop and the results loop both called Close with
\* different causes and both calls returned.
C3_TwoCallers ==
    /\ pc["receive"] = "done"
    /\ pc["results"] = "done"
    /\ resErr = "results"
    /\ CloseErr = "read"
    /\ once = "done"

\* C4: with CallCap > 0 the URI's list never holds more than CallCap payloads.
C4_ListWithinCap == callCap > 0 => Len(callList) <= callCap

C6_NoOverLimitWrite ==
    \A p \in Procs :
        /\ pc[p] \in {"ew_lock", "ew_frame", "ew_close"} => ~cur[p].over
        /\ cur[p].over => ~w[p].init /\ ~w[p].nextWriter /\ ~w[p].wrote
        /\ attempt[p] = 2 => cur[p].kind = "ERR" /\ cur[p].code = 550

\* C6 happens: a RES was refused by the limit with the lock free and no
\* frame open, and the ERR 550 about it is on its way.
C6_Refused ==
    /\ attempt["results"] = 2
    /\ pc["results"] = "ew_lock"
    /\ cur["results"].ref = 1
    /\ Holders = {}
    /\ wmu = 1
    /\ frame = None

\* C7: the step in which the wait for the lock times out needs a lock
\* timeout > 0, happens on a writer that does not hold the lock, leaves the
\* tokens, the open frame and the frame history as they were, and ends in
\* writeMsg returning the lock-timeout error, for which ProcessMsg closes
\* the connection.
C7_TimeoutLeavesPermit ==
    [][\A p \in Procs :
         (pc[p] = "ew_lock" /\ pc'[p] = "cl_do") =>
            /\ cfg.lockTimeout > 0
            /\ p \notin Holders
            /\ ~w[p].nextWriter
            /\ ~w[p].wrote
            /\ wmu' = wmu
            /\ frame' = frame
            /\ interleaved' = interleaved
            /\ closeArg'[p] = "writelock"]_vars

\* C7 happens: a sender timed out while another writer keeps the lock and
\* its open frame.
C7_TimedOut ==
    \E p, q \in Procs :
        /\ p # q
        /\ pc[p] = "cl_do"
        /\ closeArg[p] = "writelock"
        /\ wmu = 0
        /\ frame = q
        /\ Holders = {q}

\* C8: every step that ends with the kill channel closed, the closing step
\* included, starts with CloseErr assigned and both handles closed, and
\* leaves CloseErr as it is.
C8_KillLast ==
    [][killCloses' > 0 =>
         /\ closeErrWrites >= 1
         /\ pscCloses >= 1
         /\ rescCloses >= 1
         /\ CloseErr' = CloseErr]_vars

\* C8 happens: the kill channel is closed with a cause set while another
\* goroutine is about to call the Once with another cause.
C8_Notified ==
    \E p \in Procs :
        /\ killCloses = 1
        /\ CloseErr = "writelock"
        /\ pc[p] = "cl_do"
        /\ closeArg[p] # CloseErr

\* The three loops have returned.
AllDone == \A p \in Procs : pc[p] = "done"

\* C9: once a goroutine has called Conn.Close, the three loops eventually
\* all return.
C9_LoopsEnd == (\E p \in Procs : pc[p] = "cl_do") ~> AllDone

\* C9 happens: the connection was closed for a lock timeout and the three
\* loops have returned.
C9_Ended ==
    /\ AllDone
    /\ CloseErr = "writelock"
    /\ wsClosed

\* C10: the step that handles CALL u hands exactly the reply for the
\* enqueue's outcome to Conn.Send (OK, or ERR 500), does not touch the close
\* state and does not call Conn.Close; no other step adds a reply for u.
C10_OneReply ==
    [][\A u \in CallIds :
         IF enq'[u] # enq[u]
         THEN /\ enq[u] = None
              /\ replies'[u] = << IF enq'[u] = "ok"
                                  THEN [kind |-> "OK", ref |-> u, code |-> 0]
                                  ELSE [kind |-> "ERR", ref |-> u, code |-> 500] >>
              /\ closeVars' = closeVars
              /\ pc'[receiver] \notin {"cl_do", "done"}
         ELSE replies'[u] = replies[u]]_vars

\* C10 happens: with no write limit and no lock timeout the enqueue of call 1
\* failed, its ERR 500 went to Conn.Send and through writeMsg, and the read
\* loop is reading again on a connection nobody closed.
C10_ErrReplied ==
    /\ cfg = [lockTimeout |-> 0, writeLimit |-> 0]
    /\ enq[1] = "fail"
    /\ replies[1] = <<[kind |-> "ERR", ref |-> 1, code |-> 500]>>
    /\ once = "idle"
    /\ \A p \in Procs : pc[p] = "loop"

\* The payloads of a list, as a set.
Elems(list) == {list[i] : i \in 1..Len(list)}

\* A list with its last element first.
Reverse(list) == [i \in 1..Len(list) |-> list[Len(list) + 1 - i]]

\* C11: a Broker.Call that returned an error left neither its call-timeout
\* key nor its payload in the broker.
C11_FailedCallLeavesNothing ==
    \A u \in 1..MaxCalls :
        callReply[u] \notin {None, "nil"} => u \notin callKeys /\ u \notin Elems(callList)

\* C12: a Broker.Call that fails on a list already holding CallCap payloads
\* or more leaves the list as it was.
C12_FailedCallKeepsList ==
    [][\A u \in 1..MaxCalls :
         (/\ callCap > 0
          /\ Len(callList) >= callCap
          /\ callReply[u] = None
          /\ callReply'[u] \notin {None, "nil"}) => callList' = callList]_vars

\* C13: with CallCap = 2, no dequeue and calls 1, 2 and 3 (and no other)
\* having run the script, exactly two Calls returned nil and the list holds
\* exactly two payloads.
C13_TwoOfThree ==
    (/\ callCap = 2
     /\ deq = <<>>
     /\ \A u \in 1..MaxCalls :
          IF u <= 3 THEN callReply[u] \notin {None, "marshal error"}
                    ELSE callReply[u] = None)
    => /\ Cardinality({u \in 1..3 : callReply[u] = "nil"}) = 2
       /\ Len(callList) = 2

C15_ResultStored ==
    \A u \in 1..MaxCalls :
        (resultReply[u] = "nil" /\ u \in callKeys) => u \in Elems(resList)

\* The positions of a goroutine inside the exclusiveWriter.
WriterPcs == {"ew_lock", "ew_frame", "ew_close"}

\* C16: a sender that leaves the wait for the lock without the lock has
\* written nothing, leaves the open frame as it is and calls Conn.Close with
\* the lock-timeout cause; the Close that runs the Once with that cause
\* stores it in CloseErr.
C16_LockTimeoutCloses ==
    [][\A p \in Procs :
         /\ (pc[p] = "ew_lock" /\ pc'[p] \notin {"ew_lock", "ew_frame"}) =>
               /\ pc'[p] = "cl_do"
               /\ closeArg'[p] = "writelock"
               /\ ~w[p].nextWriter
               /\ ~w[p].wrote
               /\ frame' = frame
         /\ (pc[p] = "cl_err" /\ closeArg[p] = "writelock" /\ pc'[p] # "cl_err") =>
               CloseErr' = "writelock"]_vars

\* C16 happens: the connection was closed by a sender whose wait for the
\* lock timed out, the cause is stored, and a loop is still running.
C16_ClosedForTimeout ==
    /\ once = "done"
    /\ firstCause = "writelock"
    /\ CloseErr = "writelock"
    /\ killCloses = 1
    /\ \E p \in Procs : pc[p] = "loop"

\* C17: a loop hands a message to the writer as attempt 1, or as attempt 2
\* the ERR 550 about the message the limit refused (for the results loop,
\* about the payload received), never an over-limit message, and without
\* touching the close state; a loop calls Conn.Close from its channel or its
\* read only for the end of the stream or a read failure; a sender inside
\* the writer calls Conn.Close only from the wait for the lock, and
\* otherwise goes on to the frame, the end of writeMsg and back to its loop,
\* with no further attempt.
C17_LimitNotFatal ==
    [][\A p \in Procs :
         /\ (pc[p] = "loop" /\ pc'[p] = "ew_lock") =>
               /\ attempt'[p] \in {1, 2}
               /\ ~cur'[p].over
               /\ attempt'[p] = 2 =>
                     /\ cfg.writeLimit > 0
                     /\ cur'[p].kind = "ERR"
                     /\ cur'[p].code = 550
                     /\ p = "results" => cur'[p].ref = resCh
                     /\ p = "receive" => cur'[p].ref = nRead'
               /\ closeVars' = closeVars
         /\ (pc[p] = "loop" /\ pc'[p] = "cl_do") =>
               /\ p = "results" => resChClosed /\ resCh = 0
               /\ p = "pubSub" => evChClosed /\ evCh = None
               /\ p = "receive" => closeArg'[p] \in {"read", "msgtype", "decode"}
         /\ (pc[p] \in WriterPcs /\ pc'[p] # pc[p]) =>
               /\ pc'[p] \in {"ew_frame", "ew_close", "loop", "cl_do"}
               /\ pc'[p] = "cl_do" => pc[p] = "ew_lock" /\ closeArg'[p] = "writelock"
               /\ pc'[p] = "loop" => pc[p] = "ew_close"]_vars

\* C17 happens: a RES was refused by the limit, the ERR 550 about it was
\* written, and nobody closed the connection.
C17_ErrWritten ==
    /\ pc["results"] = "ew_close"
    /\ attempt["results"] = 2
    /\ cur["results"] = [kind |-> "ERR", ref |-> 1, code |-> 550, over |-> FALSE]
    /\ w["results"].wrote
    /\ once = "idle"

\* C19: a sender whose writeMsg ends with a transport error calls
\* Conn.Close with that error.
C19_TransportErrorCloses ==
    [][\A p \in Procs :
         (pc[p] = "ew_close" /\ err[p] = "Transport" /\ pc'[p] # "ew_close") =>
            /\ pc'[p] = "cl_do"
            /\ closeArg'[p] = "Transport"]_vars

LimitValues == {0, 1, 2, 4095, 4096, 4097, 8192}
LimitLens == {1, 2, 3, 4095, 4096, 4097, 4098, 8191, 8192, 8193}

\* A message whose encoding is n bytes long is given to writeMsg.
LW_Msg(n) ==
    /\ lwOut = None
    /\ lwLen' = n
    /\ lwOut' = "encoding"
    /\ UNCHANGED <<cfg, procVars, writerVars, closeVars, rcvVars, resVars, evVars, brokerVars, extVars>>

\* writeMsg with the lock free and a working transport: the encoding goes
\* through the limitedWriter when WriteLimit > 0 and is refused with
\* errWriteLimitExceeded, or reaches the exclusiveWriter and is written.
LW_WriteMsg ==
    /\ lwOut = "encoding"
    /\ lwOut' = IF Refused(lwLen) THEN "errWriteLimitExceeded" ELSE "written"
    /\ UNCHANGED <<lwLen, cfg, procVars, writerVars, closeVars, rcvVars, resVars, evVars, brokerVars, extVars>>

\* writeMsg has returned; the next message may come.
LW_Return ==
    /\ lwOut \in {"errWriteLimitExceeded", "written"}
    /\ lwOut' = None
    /\ lwLen' = 0
    /\ UNCHANGED <<cfg, procVars, writerVars, closeVars, rcvVars, resVars, evVars, brokerVars, extVars>>

\* A server with any of the write limits sending messages of any of the
\* lengths, one after the other, on a connection with no other sender.
LimitInit ==
    /\ cfg \in [lockTimeout : {0}, writeLimit : LimitValues]
    /\ ConnInit
    /\ BrokerInit
    /\ callCap = 0
    /\ resultCap = 0

LimitNext ==
    \/ \E n \in LimitLens : LW_Msg(n)
    \/ LW_WriteMsg
    \/ LW_Return

LimitSpec == LimitInit /\ [][LimitNext]_vars

\* C18: a message is refused with errWriteLimitExceeded exactly when
\* WriteLimit > 0 and its encoded length is over WriteLimit or minLimit,
\* whichever is larger; otherwise it is written.
C18_EffectiveLimit ==
    lwOut \in {"errWriteLimitExceeded", "written"} =>
        (lwOut = "errWriteLimitExceeded" <=> OverLimit(lwLen))

\* C18 as stated: with WriteLimit = L > 0 a message of n bytes is refused
\* exactly when n > L.
C18_ConfiguredLimit ==
    (lwOut \in {"errWriteLimitExceeded", "written"} /\ cfg.writeLimit > 0) =>
        (lwOut = "errWriteLimitExceeded" <=> lwLen > cfg.writeLimit)

\* C18 happens: with WriteLimit = 4097 a message of exactly 4097 bytes was
\* written.
C18_ExactlyLimitWritten ==
    /\ cfg.writeLimit = 4097
    /\ lwLen = 4097
    /\ lwOut = "written"

\* The positions of a goroutine inside Conn.Close.
ClosePcs == {"cl_do", "cl_err", "cl_psc", "cl_resc", "cl_kill"}

\* C21: the results loop and the pub/sub loop leave their channel for
\* something else than the sending of a payload only when the channel is
\* closed and drained, and then call Conn.Close with the stream's error and
\* return; the Close that runs the Once for them stores that error in
\* CloseErr; a loop that has returned stays so.
C21_StreamEndCloses ==
    [][/\ (pc["results"] = "loop" /\ pc'["results"] \notin {"loop", "ew_lock"}) =>
            /\ resChClosed
            /\ resCh = 0
            /\ pc'["results"] = "cl_do"
            /\ closeArg'["results"] = resErr
            /\ ret'["results"] = "done"
       /\ (pc["pubSub"] = "loop" /\ pc'["pubSub"] \notin {"loop", "ew_lock"}) =>
            /\ evChClosed
            /\ evCh = None
            /\ pc'["pubSub"] = "cl_do"
            /\ closeArg'["pubSub"] = evErr
            /\ ret'["pubSub"] = "done"
       /\ \A p \in {"results", "pubSub"} :
            /\ (pc[p] = "cl_err" /\ pc'[p] # "cl_err") => CloseErr' = closeArg[p]
            /\ pc[p] = "done" => pc'[p] = "done"]_vars

\* C21 happens: the events stream failed, the pub/sub loop closed the
\* connection with that error and returned.
C21_ClosedByStream ==
    /\ pc["pubSub"] = "done"
    /\ evErr = "pubsub"
    /\ firstCause = "pubsub"
    /\ CloseErr = "pubsub"
    /\ once = "done"

\* C24: no step of Conn.Close changes the websocket connection: it stays
\* open or closed as it was, an open frame stays open, and the write lock
\* and the writers are untouched.
C24_CloseLeavesTransport ==
    [][(\E p \in Procs : pc[p] \in ClosePcs /\ pc'[p] # pc[p]) =>
          /\ wsClosed' = wsClosed
          /\ frame' = frame
          /\ wmu' = wmu
          /\ w' = w]_vars

\* C24 happens: Conn.Close has returned, the websocket connection is open
\* and the frame a writer opened before is still open.
C24_OpenAfterClose ==
    \E p \in Procs :
        /\ once = "done"
        /\ ~wsClosed
        /\ frame = p
        /\ w[p].wrote

\* C29: with a lock timeout of 0 no writeMsg ends with the lock-timeout
\* error, and a sender waiting for the lock eventually holds it.
C29_ZeroTimeoutWaits ==
    /\ [](cfg.lockTimeout = 0 =>
            /\ CloseErr # "writelock"
            /\ \A p \in Procs : closeArg[p] # "writelock")
    /\ \A p \in Procs :
         (cfg.lockTimeout = 0 /\ pc[p] = "ew_lock") ~> (pc[p] = "ew_frame")

\* C29 happens: with a lock timeout of 0 a sender waits for the lock while
\* another writer holds it with its frame open.
C29_Waiting ==
    \E p, q \in Procs :
        /\ cfg.lockTimeout = 0
        /\ p # q
        /\ pc[p] = "ew_lock"
        /\ Holders = {q}
        /\ w[q].wrote

\* C30: once Conn.Close has returned, the read loop reads and dispatches
\* no further frame, and no writer opens a frame.
C30_QuietAfterClose ==
    [][once = "done" =>
          /\ nRead' = nRead
          /\ enq' = enq
          /\ \A p \in Procs : w'[p].nextWriter => w[p].nextWriter]_vars

\* ------------------------------------------------ PanicRecover on its own

\* What recover() returns in the deferred function: nil when the handler
\* returned, and nil too when it called panic(nil); the panic value otherwise.
Recover(v) == IF v.type \in {"nopanic", "nil"} THEN NoPanic ELSE v

\* The error Close is given for a recovered value: the value itself if it
\* is an error, fmt.Errorf("%v", e) otherwise.
PanicErr(e) == IF e.type = "error" THEN e ELSE [type |-> "error", text |-> e.text]

\* PanicRecover(h, closeConn, printStack) returns the wrapped handler.
PR_Wrap(cc, ps) ==
    /\ ~prCfg.wrapped
    /\ prCfg' = [wrapped |-> TRUE, closeConn |-> cc, printStack |-> ps]
    /\ UNCHANGED <<prPc, prPanic, prClosed, prHandled, prLogged, prStacks, prEscaped>>
    /\ UNCHANGED panicRest

\* The wrapped handler is called for a message on connection c: h.Handle
\* runs, and returns or panics with v; the deferred function is next.
PR_Handle(c, v) ==
    /\ prCfg.wrapped
    /\ prPc[c] = "idle"
    /\ prHandled[c] < MaxPanics
    /\ prHandled' = [prHandled EXCEPT ![c] = @ + 1]
    /\ prPanic' = [prPanic EXCEPT ![c] = v]
    /\ prPc' = [prPc EXCEPT ![c] = "deferred"]
    /\ UNCHANGED <<prCfg, prClosed, prLogged, prStacks, prEscaped>>
    /\ UNCHANGED panicRest

\* The deferred function: recover() ends the panic; for a non-nil recovered
\* value the connection is closed when closeConn is set (Conn.Close keeps
\* the first cause), the panic is logged, and the stack when printStack is
\* set. Handle then returns to its caller.
PR_Recover(c) ==
    /\ prPc[c] = "deferred"
    /\ LET e == Recover(prPanic[c]) IN
         /\ prClosed' = IF e # NoPanic /\ prCfg.closeConn /\ prClosed[c] = NoCause
                        THEN [prClosed EXCEPT ![c] = PanicErr(e)]
                        ELSE prClosed
         /\ prLogged' = IF e # NoPanic THEN prLogged + 1 ELSE prLogged
         /\ prStacks' = IF e # NoPanic /\ prCfg.printStack THEN prStacks + 1 ELSE prStacks
    /\ prPc' = [prPc EXCEPT ![c] = "idle"]
    /\ prPanic' = [prPanic EXCEPT ![c] = NoPanic]
    /\ UNCHANGED <<prCfg, prHandled, prEscaped>>
    /\ UNCHANGED panicRest

\* Two connections served through one wrapped handler, for each pair of
\* PanicRecover's flags, with handlers that return or panic.
PanicInitAll ==
    /\ cfg = [lockTimeout |-> 0, writeLimit |-> 0]
    /\ ConnInit
    /\ BrokerInit
    /\ callCap = 0
    /\ resultCap = 0

PanicNext ==
    \/ \E cc, ps \in BOOLEAN : PR_Wrap(cc, ps)
    \/ \E c \in PanicConns : \E v \in PanicValues \cup {NoPanic} : PR_Handle(c, v)
    \/ \E c \in PanicConns : PR_Recover(c)

PanicSpec == PanicInitAll /\ [][PanicNext]_vars

\* C22: when the deferred function of PanicRecover has run for a handler
\* that panicked on connection c, the panic has not reached the caller;
\* with closeConn an open connection c is closed with the panic value if it
\* is an error and with its formatted text otherwise, without closeConn c
\* is as it was; every other connection is as it was.
C22_PanicContained ==
    [][\A c \in PanicConns :
          (prPc[c] = "deferred" /\ prPc'[c] = "idle" /\ prPanic[c] # NoPanic) =>
             /\ ~prEscaped'
             /\ (prCfg.closeConn /\ prClosed[c] = NoCause) =>
                    prClosed'[c] = PanicErr(prPanic[c])
             /\ ~prCfg.closeConn => prClosed'[c] = prClosed[c]
             /\ \A d \in PanicConns \ {c} : prClosed'[d] = prClosed[d]]_vars

\* -------------------------------- ProcessMsg on the pub/sub request kinds

\* The requests of the kinds whose case in ProcessMsg does not send: their
\* channel and, for SUB and UNSB, the pattern flag.
Channels == {"a", "b"}
Requests ==
    [kind : {"PUB"}, channel : Channels, pattern : {FALSE}]
      \cup [kind : {"SUB", "UNSB"}, channel : Channels, pattern : BOOLEAN]
      \cup [kind : {"AUTH"}, channel : {""}, pattern : {FALSE}]

\* The requests of kind k in a log, in order.
OfKind(log, k) == SelectSeq(log, LAMBDA m : m.kind = k)

\* ProcessMsg(c, m) for an AUTH, PUB, SUB or UNSB request: the case of the
\* type switch is empty and ProcessMsg returns; no broker is invoked.
PM_Request(m) ==
    /\ Len(dsLog) < MaxRequests
    /\ dsLog' = Append(dsLog, m)
    /\ UNCHANGED <<dsPublish, dsSubscribe, dsUnsubscribe>>
    /\ UNCHANGED dispRest

\* A connection whose client sends pub/sub requests only.
DispatchInitAll ==
    /\ cfg = [lockTimeout |-> 0, writeLimit |-> 0]
    /\ ConnInit
    /\ BrokerInit
    /\ callCap = 0
    /\ resultCap = 0

DispatchNext == \E m \in Requests : PM_Request(m)

DispatchSpec == DispatchInitAll /\ [][DispatchNext]_vars

\* C23: the Publish invocations are the PUB requests handled, the Subscribe
\* invocations the SUB requests and the Unsubscribe invocations the UNSB
\* requests, one for one, in order, with the same channel and pattern flag.
C23_PubSubForwarded ==
    /\ dsPublish = OfKind(dsLog, "PUB")
    /\ dsSubscribe = OfKind(dsLog, "SUB")
    /\ dsUnsubscribe = OfKind(dsLog, "UNSB")

\* --------------------------------------- Conn.Writer used by tasks directly

\* Task t holds the write permit: one of its writers took it in Write and
\* was not closed since.
Holds(t) == \E k \in Ranks : uw[t][k].init /\ ~uw[t][k].closed

\* c.Writer(to): a new exclusiveWriter on c.wmu with lockTimeout to.
UW_Writer(t, to) ==
    /\ uwPc[t] = "idle"
    /\ \E k \in Ranks :
         /\ ~uw[t][k].made
         /\ \A j \in Ranks : j < k => uw[t][j].made
         /\ uw' = [uw EXCEPT ![t][k] = [NoWriter EXCEPT !.made = TRUE, !.lockTimeout = to]]
    /\ UNCHANGED <<uwPc, uwSel, uwMu>>
    /\ UNCHANGED apiRest

\* Write on writer k: with init set the bytes go to the frame writer and
\* Write returns; otherwise the task enters the select on the timer and
\* c.wmu.
UW_Write(t, k) ==
    /\ uwPc[t] = "idle"
    /\ uw[t][k].made
    /\ ~uw[t][k].closed
    /\ IF uw[t][k].init
       THEN /\ uw' = [uw EXCEPT ![t][k].ret = "nil"]
            /\ UNCHANGED <<uwPc, uwSel>>
       ELSE /\ uwPc' = [uwPc EXCEPT ![t] = "select"]
            /\ uwSel' = [uwSel EXCEPT ![t] = k]
            /\ uw' = [uw EXCEPT ![t][k].ret = "none"]
    /\ UNCHANGED uwMu
    /\ UNCHANGED apiRest

\* case <-w.writeLock: the permit is taken, init is set, the frame writer
\* is opened and written to; Write returns.
UW_Acquire(t) ==
    /\ uwPc[t] = "select"
    /\ uwMu = 1
    /\ uwMu' = 0
    /\ uw' = [uw EXCEPT ![t][uwSel[t]] = [@ EXCEPT !.init = TRUE, !.w = TRUE, !.ret = "nil"]]
    /\ uwPc' = [uwPc EXCEPT ![t] = "idle"]
    /\ UNCHANGED uwSel
    /\ UNCHANGED apiRest

\* case <-wait: with lockTimeout > 0 the timer fires and Write returns
\* ErrWriteLockTimeout.
UW_Timeout(t) ==
    /\ uwPc[t] = "select"
    /\ uw[t][uwSel[t]].lockTimeout > 0
    /\ uw' = [uw EXCEPT ![t][uwSel[t]].ret = "ErrWriteLockTimeout"]
    /\ uwPc' = [uwPc EXCEPT ![t] = "idle"]
    /\ UNCHANGED <<uwSel, uwMu>>
    /\ UNCHANGED apiRest

\* Close of writer k, the first or a later one: nothing without init;
\* otherwise the frame writer is closed and the task goes to the send on
\* c.wmu. Close leaves init set.
UW_Close(t, k) ==
    /\ uwPc[t] = "idle"
    /\ uw[t][k].made
    /\ uw[t][k].closes < MaxCloses
    /\ uw' = [uw EXCEPT ![t][k] = [@ EXCEPT !.closes = @ + 1,
                                             !.closed = @ \/ ~uw[t][k].init]]
    /\ uwPc' = [uwPc EXCEPT ![t] = IF uw[t][k].init THEN "send" ELSE "idle"]
    /\ uwSel' = [uwSel EXCEPT ![t] = k]
    /\ UNCHANGED uwMu
    /\ UNCHANGED apiRest

\* w.writeLock <- struct{}{}: the send goes through when the one-slot
\* channel is empty, and Close returns.
UW_Release(t) ==
    /\ uwPc[t] = "send"
    /\ uwMu = 0
    /\ uwMu' = 1
    /\ uw' = [uw EXCEPT ![t][uwSel[t]].closed = TRUE]
    /\ uwPc' = [uwPc EXCEPT ![t] = "idle"]
    /\ UNCHANGED uwSel
    /\ UNCHANGED apiRest

\* Two tasks asking the connection for writers with or without a timeout,
\* writing to them and closing them in any order.
ApiInitAll ==
    /\ cfg = [lockTimeout |-> 0, writeLimit |-> 0]
    /\ ConnInit
    /\ BrokerInit
    /\ callCap = 0
    /\ resultCap = 0

ApiNext ==
    \/ \E t \in Tasks : \E to \in LockTimeouts : UW_Writer(t, to)
    \/ \E t \in Tasks : \E k \in Ranks : UW_Write(t, k)
    \/ \E t \in Tasks : UW_Acquire(t)
    \/ \E t \in Tasks : UW_Timeout(t)
    \/ \E t \in Tasks : \E k \in Ranks : UW_Close(t, k)
    \/ \E t \in Tasks : UW_Release(t)

\* A select with a ready case is left: the permit is taken when it is
\* there, the timer fires when there is one.
ApiFairness ==
    \A t \in Tasks :
        WF_vars(UW_Acquire(t)) /\ WF_vars(UW_Timeout(t)) /\ WF_vars(UW_Release(t))

ApiSpec == ApiInitAll /\ [][ApiNext]_vars /\ ApiFairness

\* C25: a task that holds the write permit and is in the Write of another
\* writer it asked for without a timeout gets out of that Write.
C25_SecondWriteReturns ==
    \A t \in Tasks :
        (uwPc[t] = "select" /\ uw[t][uwSel[t]].lockTimeout = 0 /\ Holds(t))
            ~> (uwPc[t] = "idle")

\* ------------------------------------- the load client and its expirations

\* sync.WaitGroup panics when Done takes its counter below 0; the panic
\* is in the client's goroutine and ends the program.
Crashed == wgResults < 0

\* runClient's handler with EXP counted as a result.
LD_HandleExpAsRes(kind) ==
    /\ ldStats' = CASE kind = "RES" -> [ldStats EXCEPT !.Res = @ + 1]
                    [] kind = "EXP" -> [ldStats EXCEPT !.Res = @ + 1]
                    [] kind = "OK" -> [ldStats EXCEPT !.OK = @ + 1]
                    [] kind = "ERR" -> [ldStats EXCEPT !.Err = @ + 1]
    /\ wgResults' = IF kind = "OK" THEN wgResults ELSE wgResults - 1

\* The handler runClient gives to client.Dial: it counts the message by
\* type and, except for an OK, calls wgResults.Done().
LD_Handle(kind) ==
    /\ ldStats' = CASE kind = "RES" -> [ldStats EXCEPT !.Res = @ + 1]
                    [] kind = "EXP" -> [ldStats EXCEPT !.Exp = @ + 1]
                    [] kind = "OK" -> [ldStats EXCEPT !.OK = @ + 1]
                    [] kind = "ERR" -> [ldStats EXCEPT !.Err = @ + 1]
    /\ wgResults' = IF kind = "OK" THEN wgResults ELSE wgResults - 1

\* One turn of runClient's loop: wgResults.Add(1), stats.Calls++ and
\* cli.Call, which sends the CALL and records it as pending with its
\* deadline.
LD_Call(u) ==
    /\ ~Crashed
    /\ ldPc = "loop"
    /\ u \notin clIssued
    /\ \A v \in ClientCalls : v < u => v \in clIssued
    /\ wgResults' = wgResults + 1
    /\ ldStats' = [ldStats EXCEPT !.Calls = @ + 1]
    /\ clIssued' = clIssued \cup {u}
    /\ clPending' = clPending \cup {u}
    /\ UNCHANGED <<ldPc, clRes, clOK, clGot, clErr>>
    /\ UNCHANGED loadRest

\* stop is closed: runClient leaves the loop for wgResults.Wait().
LD_Stop ==
    /\ ~Crashed
    /\ ldPc = "loop"
    /\ ldPc' = "wait"
    /\ UNCHANGED <<ldStats, wgResults, clIssued, clPending, clRes, clOK, clGot, clErr>>
    /\ UNCHANGED loadRest

\* wgResults.Wait() returns with the counter at 0 and the client is closed.
LD_Close ==
    /\ ~Crashed
    /\ ldPc = "wait"
    /\ wgResults = 0
    /\ ldPc' = "closed"
    /\ UNCHANGED <<ldStats, wgResults, clIssued, clPending, clRes, clOK, clGot, clErr>>
    /\ UNCHANGED loadRest

\* The gateway's OK for call u arrives and is given to the handler.
LC_OK(u) ==
    /\ ~Crashed
    /\ ldPc # "closed"
    /\ u \in clIssued
    /\ u \notin clOK
    /\ clOK' = clOK \cup {u}
    /\ LD_Handle("OK")
    /\ UNCHANGED <<ldPc, clIssued, clPending, clRes, clGot, clErr>>
    /\ UNCHANGED loadRest

\* The gateway sends the one RES of call u.
GW_Res(u) ==
    /\ u \in clIssued
    /\ clRes[u] = "none"
    /\ clErr[u] = "none"
    /\ clRes' = [clRes EXCEPT ![u] = "flying"]
    /\ UNCHANGED <<ldPc, ldStats, wgResults, clIssued, clPending, clOK, clGot, clErr>>
    /\ UNCHANGED loadRest

\* The RES of call u arrives: a pending entry is resolved, removed and
\* given to the handler; without an entry the message is not delivered.
LC_Res(u) ==
    /\ ~Crashed
    /\ ldPc # "closed"
    /\ clRes[u] = "flying"
    /\ clRes' = [clRes EXCEPT ![u] = "arrived"]
    /\ IF u \in clPending
       THEN /\ clPending' = clPending \ {u}
            /\ clGot' = [clGot EXCEPT ![u].RES = @ + 1]
            /\ LD_Handle("RES")
       ELSE UNCHANGED <<clPending, clGot, ldStats, wgResults>>
    /\ UNCHANGED <<ldPc, clIssued, clOK, clErr>>
    /\ UNCHANGED loadRest

\* The deadline of the pending call u passes without a result: the entry
\* is removed and an EXP is given to the handler.
LC_Expire(u) ==
    /\ ~Crashed
    /\ ldPc # "closed"
    /\ u \in clPending
    /\ clPending' = clPending \ {u}
    /\ clGot' = [clGot EXCEPT ![u].EXP = @ + 1]
    /\ LD_Handle("EXP")
    /\ UNCHANGED <<ldPc, clIssued, clRes, clOK, clErr>>
    /\ UNCHANGED loadRest

\* The gateway answers call u with an ERR and no RES: the ERR 500 of a
\* failed enqueue, or the ERR 550 sent in the place of a RES that is over
\* the write limit.
GW_Err(u) ==
    /\ u \in clIssued
    /\ clRes[u] = "none"
    /\ clErr[u] = "none"
    /\ clErr' = [clErr EXCEPT ![u] = "flying"]
    /\ UNCHANGED <<ldPc, ldStats, wgResults, clIssued, clPending, clRes, clOK, clGot>>
    /\ UNCHANGED loadRest

\* The ERR arrives and is given to the handler; only a RES or the deadline
\* removes a pending entry.
LC_Err(u) ==
    /\ ~Crashed
    /\ ldPc # "closed"
    /\ clErr[u] = "flying"
    /\ clErr' = [clErr EXCEPT ![u] = "arrived"]
    /\ clGot' = [clGot EXCEPT ![u].ERR = @ + 1]
    /\ LD_Handle("ERR")
    /\ UNCHANGED <<ldPc, clIssued, clPending, clRes, clOK>>
    /\ UNCHANGED loadRest

\* One load client whose calls are answered, late or not at all.
LoadInitAll ==
    /\ cfg = [lockTimeout |-> 0, writeLimit |-> 0]
    /\ ConnInit
    /\ BrokerInit
    /\ callCap = 0
    /\ resultCap = 0

LoadNext ==
    \/ \E u \in ClientCalls : LD_Call(u)
    \/ LD_Stop
    \/ LD_Close
    \/ \E u \in ClientCalls : LC_OK(u)
    \/ \E u \in ClientCalls : GW_Res(u)
    \/ \E u \in ClientCalls : LC_Res(u)
    \/ \E u \in ClientCalls : LC_Expire(u)
    \/ \E u \in ClientCalls : GW_Err(u)
    \/ \E u \in ClientCalls : LC_Err(u)

LoadSpec == LoadInitAll /\ [][LoadNext]_vars

C27_ResultCapEnforced ==
    resultCap > 0 =>
        /\ Cardinality({u \in 1..MaxCalls : resultReply[u] = "nil"}) <= resultCap
        /\ Len(resList) <= resultCap

\* ------------------------------------------- Broker.Call and its timeout

\* Timeouts around 0 and the millisecond, in microseconds.
CallTimeouts == {-2000, -500, 0, 999, 1000, 2500}

\* The whole milliseconds of a duration that is not negative.
WholeMs(t) == CHOOSE n \in 0..(t \div Millisecond) + 1 :
                  n * Millisecond <= t /\ t < (n + 1) * Millisecond

\* Broker.Call invocations with any of the timeouts on a broker without a
\* cap, and the expiration of the keys.
TimeoutInit ==
    /\ cfg = [lockTimeout |-> 0, writeLimit |-> 0]
    /\ ConnInit
    /\ BrokerInit
    /\ callCap = 0
    /\ resultCap = 0

TimeoutNext ==
    \/ \E u \in 1..MaxTimedCalls : \E timeout \in CallTimeouts : BrokerCall(u, timeout)
    \/ \E u \in 1..MaxTimedCalls : CallKeyExpires(u)

TimeoutSpec == TimeoutInit /\ [][TimeoutNext]_vars

\* The script of Broker.Call has just run for call u.
ScriptRan(u) == callReply[u] = None /\ callReply'[u] \notin {None, "marshal error"}

\* C28: a Broker.Call whose script ran with a timeout of at least 1 ms
\* leaves the call's key with value and expiration equal to the timeout's
\* whole milliseconds; with a timeout below 1 ms and above -1 ms both are
\* 60000; with a timeout of -1 ms or less the SET is refused, Call returns
\* the error and neither key nor payload is written. A key's value always
\* equals its expiration.
C28_TimeoutKey ==
    [][\A u \in 1..MaxCalls :
          /\ ScriptRan(u) =>
               LET t == callTimeout'[u] IN
                 /\ t >= Millisecond =>
                      callKeyVal'[u] = [val |-> WholeMs(t), px |-> WholeMs(t)]
                 /\ (-Millisecond < t /\ t < Millisecond) =>
                      callKeyVal'[u] = [val |-> 60000, px |-> 60000]
                 /\ t <= -Millisecond =>
                      /\ callKeyVal'[u] = NoKey
                      /\ u \notin callKeys'
                      /\ callList' = callList
                      /\ callReply'[u] = "script error"
          /\ callKeyVal'[u].val = callKeyVal'[u].px
          /\ u \in callKeys' <=> callKeyVal'[u] # NoKey]_vars

\* C28 happens: a call given 999 microseconds has its key at 60000 and a
\* call given 2500 microseconds has its key at 2.
C28_DefaultAndGiven ==
    \E u, v \in 1..MaxCalls :
        /\ callTimeout[u] = 999
        /\ callKeyVal[u] = [val |-> 60000, px |-> 60000]
        /\ callTimeout[v] = 2500
        /\ callKeyVal[v] = [val |-> 2, px |-> 2]

\* C28 as stated: every Broker.Call whose script ran leaves the key with
\* value and expiration equal to the timeout's milliseconds, 60000 standing
\* for 0.
C28_KeyAlwaysSet ==
    [][\A u \in 1..MaxCalls :
          ScriptRan(u) =>
              LET ms == TruncDiv(callTimeout'[u], Millisecond)
                  e == IF ms = 0 THEN 60000 ELSE ms
              IN callKeyVal'[u] = [val |-> e, px |-> e]]_vars

\* The writers that took the permit in Write and whose Close has not
\* returned.
PermitHolders ==
    {tk \in Tasks \X Ranks : uw[tk[1]][tk[2]].init /\ ~uw[tk[1]][tk[2]].closed}

\* C31: the permit is with at most one writer or in c.wmu, never both nor
\* twice, and no task is stuck in the send of a Close that follows an
\* earlier Close of the same writer.
C31_ReleasedOnce ==
    /\ Cardinality(PermitHolders) + uwMu <= 1
    /\ \A t \in Tasks :
         ~(uwPc[t] = "send" /\ uw[t][uwSel[t]].closes > 1 /\ uwMu = 1)

\* C32: wgResults.Done runs at most once for each issued call, exactly one
\* of RES, EXP and ERR reaching the handler for it once it is settled, and
\* the counter of wgResults is never negative.
C32_OneDonePerCall ==
    /\ wgResults >= 0
    /\ \A u \in ClientCalls : clGot[u].RES + clGot[u].EXP + clGot[u].ERR <= 1

\* ------------------------------------------------------- the PEG parser

\* Bytes: two ASCII letters, the lead and the continuation byte of a
\* two-byte rune, and a byte that starts no rune (0xfe).
Bytes == {"a", "b", "L", "C", "X"}

\* utf8.DecodeRune: the first rune of bs and its width; RuneError with
\* width 0 for no bytes and with width 1 for an invalid encoding.
DecodeRune(bs) ==
    IF Len(bs) = 0 THEN [rn |-> RuneError, n |-> 0]
    ELSE IF bs[1] \in {"a", "b"} THEN [rn |-> bs[1], n |-> 1]
    ELSE IF bs[1] = "L" /\ Len(bs) >= 2 /\ bs[2] = "C" THEN [rn |-> "LC", n |-> 2]
    ELSE [rn |-> RuneError, n |-> 1]

\* parser.read: the rune is decoded at p.i, then p.i is moved by the old
\* p.w, and rn and w are set; an invalid encoding is added to errs.
\* p.data[p.i:] panics when p.i is beyond the end of the data.
Read(d, st) ==
    IF st.i > Len(d)
    THEN [st EXCEPT !.panic = TRUE]
    ELSE LET r == DecodeRune(SubSeq(d, st.i + 1, Len(d)))
         IN [i |-> st.i + st.w, rn |-> r.rn, w |-> r.n,
             errs |-> IF r.rn = RuneError /\ r.n > 0 THEN st.errs + 1 ELSE st.errs,
             panic |-> FALSE]

\* Expressions of the kinds whose parse function the parser has.
Expr(type, val, chars, inverted, sub) ==
    [type |-> type, val |-> val, chars |-> chars, inverted |-> inverted, sub |-> sub]
LitMatcher(val) == Expr("lit", val, {}, FALSE, <<>>)
AnyMatcher == Expr("any", <<>>, {}, FALSE, <<>>)
CharClassMatcher(chars, inverted) == Expr("class", <<>>, chars, inverted, <<>>)
ChoiceExpr(alts) == Expr("choice", <<>>, {}, FALSE, alts)
AndExpr(e) == Expr("and", <<>>, {}, FALSE, <<e>>)
ActionExpr(e) == Expr("action", <<>>, {}, FALSE, <<e>>)

\* A parse function's result: the parser afterwards and ok.
Res(st, ok) == [st |-> st, ok |-> ok]

\* parseLitMatcher from the k-th rune of the literal on: the current rune
\* is compared, a difference restores the saved i, rn and w, a match reads.
RECURSIVE LitFrom(_, _, _, _, _)
LitFrom(d, st, val, k, saved) ==
    IF st.panic THEN Res(st, FALSE)
    ELSE IF k > Len(val) THEN Res(st, TRUE)
    ELSE IF st.rn # val[k]
    THEN Res([st EXCEPT !.i = saved.i, !.rn = saved.rn, !.w = saved.w], FALSE)
    ELSE LitFrom(d, Read(d, st), val, k + 1, saved)

\* parseExpr and the parse functions it dispatches to.
RECURSIVE ParseExpr(_, _, _)
RECURSIVE ChoiceFrom(_, _, _, _)
ChoiceFrom(d, st, alts, k) ==
    IF k > Len(alts) \/ st.panic THEN Res(st, FALSE)
    ELSE LET r == ParseExpr(d, st, alts[k])
         IN IF r.ok \/ r.st.panic THEN r ELSE ChoiceFrom(d, r.st, alts, k + 1)

ParseExpr(d, st, e) ==
    CASE e.type = "action" -> ParseExpr(d, st, e.sub[1])
      [] e.type = "and" ->
           LET r == ParseExpr(d, st, e.sub[1])
           IN IF r.st.panic THEN r
              ELSE Res([r.st EXCEPT !.i = st.i, !.rn = st.rn, !.w = st.w], r.ok)
      [] e.type = "any" ->
           IF st.rn # RuneError THEN Res(Read(d, st), TRUE) ELSE Res(st, FALSE)
      [] e.type = "class" ->
           IF (st.rn \in e.chars) = e.inverted THEN Res(st, FALSE)
           ELSE Res(Read(d, st), TRUE)
      [] e.type = "choice" -> ChoiceFrom(d, st, e.sub, 1)
      [] e.type = "lit" -> LitFrom(d, st, e.val, 1, st)

\* parser.parse: nil, nil for a grammar without rules; otherwise the start
\* rule is parsed, a panic is recovered and returned as the error, and the
\* error is errs.err(): nil when errs is empty.
Parse(d, g) ==
    IF Len(g) = 0 THEN [done |-> TRUE, ok |-> FALSE, val |-> "nil", err |-> "nil"]
    ELSE LET r == ParseExpr(d, NewParser, g[1])
         IN IF r.st.panic
            THEN [done |-> TRUE, ok |-> FALSE, val |-> "nil", err |-> "panic"]
            ELSE [done |-> TRUE, ok |-> r.ok,
                  val |-> IF r.ok THEN "val" ELSE "nil",
                  err |-> IF r.st.errs = 0 THEN "nil" ELSE "errList"]

\* The inputs: every sequence of at most MaxData bytes.
Inputs == UNION {[1..n -> Bytes] : n \in 0..MaxData}

\* The grammars: none, or one rule of one of the expressions.
StartExprs ==
    {LitMatcher(<<"a">>), LitMatcher(<<"a", "b">>), LitMatcher(<<NUL, "a">>),
     AnyMatcher,
     CharClassMatcher({"a"}, FALSE), CharClassMatcher({"a"}, TRUE),
     ChoiceExpr(<<LitMatcher(<<"a">>), CharClassMatcher({"b", NUL}, FALSE)>>),
     AndExpr(AnyMatcher),
     ActionExpr(LitMatcher(<<"b">>))}
Grammars == {<<>>} \cup {<<e>> : e \in StartExprs}

\* parseUsingAST has read the input into p.data.
P_Load(d) ==
    /\ pData = <<>>
    /\ pReads = 0
    /\ ~pRet.done
    /\ d # <<>>
    /\ pData' = d
    /\ UNCHANGED <<pSt, pReads, pGrammar, pRet>>
    /\ UNCHANGED pegRest

\* One call of p.read().
P_Read ==
    /\ ~pRet.done
    /\ ~pSt.panic
    /\ pReads < MaxReads
    /\ pSt' = Read(pData, pSt)
    /\ pReads' = pReads + 1
    /\ UNCHANGED <<pData, pGrammar, pRet>>
    /\ UNCHANGED pegRest

\* p.parse(g) on the new parser.
P_Parse(g) ==
    /\ ~pRet.done
    /\ pReads = 0
    /\ pGrammar' = g
    /\ pRet' = Parse(pData, g)
    /\ UNCHANGED <<pData, pSt, pReads>>
    /\ UNCHANGED pegRest

\* A parser over any of the inputs, read rune by rune or given a grammar.
ParserInit ==
    /\ cfg = [lockTimeout |-> 0, writeLimit |-> 0]
    /\ ConnInit
    /\ BrokerInit
    /\ callCap = 0
    /\ resultCap = 0

ParserNext ==
    \/ \E d \in Inputs : P_Load(d)
    \/ P_Read
    \/ \E g \in Grammars : P_Parse(g)

ParserSpec == ParserInit /\ [][ParserNext]_vars

\* The bytes of d from the zero-based index k on.
From(d, k) == SubSeq(d, k + 1, Len(d))

\* C33: after a call of read, rn and w are the rune that starts at index i
\* of the data and its width.
C33_ReadAtIndex ==
    (pReads > 0 /\ ~pSt.panic) =>
        /\ pSt.i <= Len(pData)
        /\ [rn |-> pSt.rn, n |-> pSt.w] = DecodeRune(From(pData, pSt.i))

\* C34: parse returns an error whenever the start rule of a grammar with
\* rules did not match.
C34_NoMatchIsError ==
    (pRet.done /\ Len(pGrammar) > 0 /\ ~pRet.ok) => pRet.err # "nil"

\* ---------------------------------------------------- the parser builder

\* Expressions of the kinds writeExpr tells apart, with their
\* sub-expressions; a literal stands for the kinds without a case.
Node(type, sub) == Expr(type, <<>>, {}, FALSE, sub)
Leaf == Node("lit", <<>>)

\* The calls of writeExpr that writeExpr(e) makes, in order: for an action
\* expression the call is b.writeExpr(expr), the action expression itself.
Calls(e) ==
    CASE e.type = "action" -> <<e>>
      [] e.type \in {"labeled", "and", "not", "oneormore", "zeroormore", "zeroorone"} ->
           <<e.sub[1]>>
      [] e.type \in {"choice", "seq"} -> e.sub
      [] OTHER -> <<>>

\* writeExpr(e) writes a function on entry for the two code predicates, and
\* after its calls for an action expression.
WritesOnEntry(e) == e.type \in {"andcode", "notcode"}
WritesOnExit(e) == e.type = "action"

\* writef: nothing after a first error; otherwise the write succeeds, or
\* fails and its error is kept.
Writef(do, fail) ==
    IF ~do \/ bErr # "nil" THEN UNCHANGED <<bErr, bOut>>
    ELSE IF fail THEN bErr' = "write error" /\ UNCHANGED bOut
    ELSE bOut' = bOut + 1 /\ UNCHANGED bErr

\* The grammars: with or without a package clause, rules with nested
\* expressions, code predicates and action expressions.
BuildGrammars ==
    {[pkg |-> TRUE,
      rules |-> <<Node("seq", <<Leaf, Node("andcode", <<>>),
                              Node("choice", <<Leaf, Node("notcode", <<>>)>>)>>)>>],
     [pkg |-> FALSE,
      rules |-> <<Node("labeled", <<Node("zeroormore", <<Leaf>>)>>),
                  Node("not", <<Node("andcode", <<>>)>>)>>],
     [pkg |-> FALSE, rules |-> <<Node("action", <<Leaf>>)>>],
     [pkg |-> TRUE,
      rules |-> <<Node("seq", <<Node("andcode", <<>>), Node("action", <<Leaf>>)>>)>>],
     [pkg |-> FALSE,
      rules |-> <<Node("oneormore", <<Node("zeroorone", <<Node("notcode", <<>>)>>)>>),
                  Node("and", <<Leaf>>)>>],
     [pkg |-> TRUE, rules |-> <<>>]}

\* BuildParser(w, g) up to the loop over the rules: the package clause is
\* written if there is one.
B_Build(g, fail) ==
    /\ bPc = "idle"
    /\ bGrammar' = g
    /\ Writef(g.pkg, fail)
    /\ bPc' = "rules"
    /\ UNCHANGED <<bRule, bStack, bExprIndex>>
    /\ UNCHANGED buildRest

\* buildParser's loop between two rules: writeRule resets exprIndex and
\* calls writeExpr on the next rule's expression; after the last rule
\* buildParser returns b.err.
B_Rule(fail) ==
    /\ bPc = "rules"
    /\ bStack = <<>>
    /\ IF bRule > Len(bGrammar.rules)
       THEN /\ bPc' = "done"
            /\ UNCHANGED <<bRule, bStack, bExprIndex, bErr, bOut>>
       ELSE LET e == bGrammar.rules[bRule]
            IN /\ bRule' = bRule + 1
               /\ bExprIndex' = 1
               /\ bStack' = <<[e |-> e, k |-> 1]>>
               /\ Writef(WritesOnEntry(e), fail)
               /\ UNCHANGED bPc
    /\ UNCHANGED bGrammar
    /\ UNCHANGED buildRest

\* The innermost writeExpr makes its next call of writeExpr, which
\* increments exprIndex; a goroutine stack that cannot grow any more ends
\* the program.
B_Call(fail) ==
    /\ bPc = "rules"
    /\ bStack # <<>>
    /\ LET top == bStack[Len(bStack)]
           cs == Calls(top.e)
       IN /\ top.k <= Len(cs)
          /\ IF Len(bStack) >= MaxStack
             THEN /\ bPc' = "overflow"
                  /\ UNCHANGED <<bStack, bExprIndex, bErr, bOut>>
             ELSE /\ bStack' = Append([bStack EXCEPT ![Len(bStack)].k = @ + 1],
                                      [e |-> cs[top.k], k |-> 1])
                  /\ bExprIndex' = bExprIndex + 1
                  /\ Writef(WritesOnEntry(cs[top.k]), fail)
                  /\ UNCHANGED bPc
    /\ UNCHANGED <<bGrammar, bRule>>
    /\ UNCHANGED buildRest

\* The innermost writeExpr has made its calls and returns, an action
\* expression after writing its function.
B_Return(fail) ==
    /\ bPc = "rules"
    /\ bStack # <<>>
    /\ LET top == bStack[Len(bStack)]
       IN /\ top.k > Len(Calls(top.e))
          /\ Writef(WritesOnExit(top.e), fail)
    /\ bStack' = SubSeq(bStack, 1, Len(bStack) - 1)
    /\ UNCHANGED <<bPc, bGrammar, bRule, bExprIndex>>
    /\ UNCHANGED buildRest

\* BuildParser on any of the grammars with a writer that may fail.
BuilderInit ==
    /\ cfg = [lockTimeout |-> 0, writeLimit |-> 0]
    /\ ConnInit
    /\ BrokerInit
    /\ callCap = 0
    /\ resultCap = 0

BuildNext ==
    \/ \E g \in BuildGrammars : \E fail \in BOOLEAN : B_Build(g, fail)
    \/ \E fail \in BOOLEAN : B_Rule(fail)
    \/ \E fail \in BOOLEAN : B_Call(fail)
    \/ \E fail \in BOOLEAN : B_Return(fail)

\* The builder runs on: a call or return that can be made is made.
BuildSpec == BuilderInit /\ [][BuildNext]_vars /\ WF_vars(BuildNext)

\* C35: a BuildParser that has started returns.
C35_BuildTerminates == (bPc = "rules") ~> (bPc = "done")

====
